---- MODULE Spec2Model ----
(***************************************************************************)
(* A model of bria-fibo-studio: the backoff retrier (utils/retry.ts), the   *)
(* Bria API client (services/briaApi.ts), the style attribute extractor,   *)
(* profile namer and style DNA parser (utils/profileNameGenerator.ts,      *)
(* utils/styleDnaParser.ts), the two route handlers (api/styleExtract.ts,  *)
(* api/generateImage.ts) and the style extractor tab of the frontend       *)
(* (components/StyleExtractorTab.tsx).                                     *)
(*                                                                         *)
(* Text is modelled by TLA+ strings; JSON documents by tagged records.     *)
(***************************************************************************)
EXTENDS Integers, Sequences, FiniteSets, TLC

VARIABLES
    \* ---- retryWithBackoff (utils/retry.ts) ----
    opts,         \* the merged options of the running retryWithBackoff call
    attempt,      \* loop variable `attempt`
    delay,        \* local `delay`
    lastError,    \* local `lastError`
    rstate,       \* "idle" | "call" | "sleep" | "returned" | "thrown"
    rvalue,       \* the value returned or the error thrown by retryWithBackoff
    calls,        \* history: how many times fn has been invoked
    failures,     \* history: how many of these invocations were rejected
    lastOutcome,  \* history: the outcome of the latest invocation of fn
    slept,        \* history: the duration of every suspension so far
    \* ---- BriaApiClient (services/briaApi.ts) ----
    cop,          \* the client operation in progress: "none" | "extractStyle" | "generateImage"
    creq,         \* its argument: the images of extractStyle, the request of generateImage
    cpc,          \* where the retried operation stands: "none" | "post" | "poll"
    pollI,        \* loop variable `i` of the running polling loop
    requestId,    \* `requestId` of the running polling loop
    posted,       \* the body of the last POST sent to the remote service
    posts,        \* history: number of POSTs sent during the client call
    pollReqs,     \* history: number of status requests of the current polling invocation
    lastReply,    \* history: the answer the remote service gave to the latest request
    sawTerminal,  \* history: a status request of this invocation got a terminal status
    pollOutcome,  \* history: how the last polling invocation ended
    pollWaited,   \* history: the time the polling loop has waited since its latest status request
    \* ---- the route handlers (api/generateImage.ts, api/styleExtract.ts) ----
    apiKey,       \* process.env.BRIA_API_KEY is set
    hpc,          \* where the handler stands: "idle" | "received" | "loop" | "calling" | "responded"
    body,         \* req.body
    files,        \* the files of the multipart request, as the client sent them
    styleDNA,     \* local `styleDNA` of the generation handler
    idx,          \* loop variable `i` of the extraction handler
    structuredPrompts, \* local `structuredPrompts` of the extraction handler
    errors,       \* local `errors` of the extraction handler
    maxLength,    \* argument `maxLength` of generateProfileName
    profileName,  \* local `profileName`: the name generateProfileName returned
    res,          \* the response sent: its status and JSON body
    clientCalls,  \* history: the arguments of the client calls the handler made
    callResults,  \* history: how each of these calls ended, "returned" or "thrown"
    \* ---- StyleExtractorTab (components/StyleExtractorTab.tsx) ----
    tabImages,    \* state `images`: the selected files
    imageNames,   \* state `imageNames`
    styleProfile, \* state `styleProfile`: the profile displayed, or null
    loading,      \* state `loading`
    tabError,     \* state `error`
    extractingRef, \* extractingRef.current
    pending,      \* the calls of styleExtractApi.extract that have not settled: their files
    depLength     \* images.length as the effect of lines 75-79 saw it last (its dependency)

retryVars == <<opts, attempt, delay, lastError, rstate, rvalue, calls, failures, lastOutcome,
              slept>>

clientVars == <<cop, creq, cpc, pollI, requestId, posted, posts, pollReqs, lastReply,
                sawTerminal, pollOutcome, pollWaited>>

handlerVars == <<apiKey, hpc, body, files, styleDNA, idx, structuredPrompts, errors, maxLength,
                 profileName, res, clientCalls, callResults>>

tabVars == <<tabImages, imageNames, styleProfile, loading, tabError, extractingRef, pending,
            depLength>>

vars == <<retryVars, clientVars, handlerVars, tabVars>>

(***************************************************************************)
(* Helpers                                                                 *)
(***************************************************************************)
Min(a, b) == IF a <= b THEN a ELSE b

Last(s) == s[Len(s)]

NoValue == [kind |-> "none"]

\* A JavaScript Error object carrying a message (and no `response` field).
Err(m) == [kind |-> "error", msg |-> m]

\* An AxiosError: `code` is the transport error code (or ""), `response` the
\* HTTP response the remote service gave, when it gave one.
AxiosErr(m, code, response) ==
    [kind |-> "error", msg |-> m, isAxiosError |-> TRUE, code |-> code, response |-> response]

IsError(e) == "kind" \in DOMAIN e /\ e.kind = "error"

\* axios.isAxiosError(e)
IsAxiosError(e) == IsError(e) /\ "isAxiosError" \in DOMAIN e

\* A value returned by a successful call.
Ok(v) == [kind |-> "ok", val |-> v]

\* A rejected invocation, with the value it threw.
Threw(e) == [kind |-> "threw", err |-> e]

(***************************************************************************)
(* JavaScript values.  A value is a tagged record: text, number, boolean,  *)
(* null, undefined, array (a sequence of values) or object (a sequence of  *)
(* key/value entries in insertion order, as Object.entries sees them).     *)
(***************************************************************************)
Str(s) == [t |-> "str", s |-> s]
Num(n) == [t |-> "num", n |-> n]
Bool(b) == [t |-> "bool", b |-> b]
Null == [t |-> "null"]
Undefined == [t |-> "undefined"]
Arr(a) == [t |-> "arr", a |-> a]
Obj(entries) == [t |-> "obj", o |-> entries]
KV(k, v) == [k |-> k, v |-> v]

IsStr(v) == v.t = "str"
IsObj(v) == v.t = "obj"
IsArr(v) == v.t = "arr"

\* typeof v === 'object' (true of null, arrays and objects)
TypeofObject(v) == v.t \in {"null", "arr", "obj"}

\* JavaScript truthiness: !!v
Truthy(v) ==
    CASE v.t = "str" -> v.s # ""
      [] v.t = "num" -> v.n # 0
      [] v.t = "bool" -> v.b
      [] v.t \in {"null", "undefined"} -> FALSE
      [] OTHER -> TRUE

\* a || b
OrElse(a, b) == IF Truthy(a) THEN a ELSE b

\* Object.keys(o) of an object
ObjKeys(o) == [i \in 1 .. Len(o.o) |-> o.o[i].k]

ObjHas(o, k) == IsObj(o) /\ \E i \in 1 .. Len(o.o) : o.o[i].k = k

\* o.k (undefined when o has no such own key, or is not an object)
Get(o, k) ==
    IF ObjHas(o, k)
      THEN o.o[CHOOSE i \in 1 .. Len(o.o) : o.o[i].k = k].v
      ELSE Undefined

\* o.k = v: overwrite in place, or append a new entry
Put(o, k, v) ==
    IF ObjHas(o, k)
      THEN Obj([i \in 1 .. Len(o.o) |-> IF o.o[i].k = k THEN KV(k, v) ELSE o.o[i]])
      ELSE Obj(Append(o.o, KV(k, v)))

(***************************************************************************)
(* Text.                                                                   *)
(***************************************************************************)
\* text.includes(part)
Includes(text, part) ==
    \E i \in 1 .. (Len(text) - Len(part) + 1) : SubSeq(text, i, i + Len(part) - 1) = part

\* text.startsWith(prefix)
StartsWith(text, prefix) ==
    Len(prefix) <= Len(text) /\ SubSeq(text, 1, Len(prefix)) = prefix

RECURSIVE JoinText(_, _)
\* list.join(sep) of a sequence of texts
JoinText(list, sep) ==
    IF Len(list) = 0 THEN ""
    ELSE IF Len(list) = 1 THEN list[1]
    ELSE list[1] \o sep \o JoinText(Tail(list), sep)

RECURSIVE Stringify(_)
RECURSIVE StringifyEntries(_)
RECURSIVE StringifyItems(_)
\* The members of an object, skipping undefined values as JSON.stringify does.
StringifyEntries(es) ==
    IF Len(es) = 0 THEN <<>>
    ELSE IF es[1].v.t = "undefined" THEN StringifyEntries(Tail(es))
    ELSE <<"\"" \o es[1].k \o "\":" \o Stringify(es[1].v)>> \o StringifyEntries(Tail(es))

StringifyItems(a) ==
    IF Len(a) = 0 THEN <<>>
    ELSE <<IF a[1].t = "undefined" THEN "null" ELSE Stringify(a[1])>> \o StringifyItems(Tail(a))

\* JSON.stringify(v) (of a value other than undefined)
Stringify(v) ==
    CASE v.t = "str" -> "\"" \o v.s \o "\""
      [] v.t = "num" -> ToString(v.n)
      [] v.t = "bool" -> (IF v.b THEN "true" ELSE "false")
      [] v.t = "null" -> "null"
      [] v.t = "arr" -> "[" \o JoinText(StringifyItems(v.a), ",") \o "]"
      [] v.t = "obj" -> "{" \o JoinText(StringifyEntries(v.o), ",") \o "}"

RECURSIVE Pretty(_, _)
RECURSIVE PrettyEntries(_, _)
RECURSIVE PrettyItems(_, _)
PrettyEntries(es, indent) ==
    IF Len(es) = 0 THEN <<>>
    ELSE IF es[1].v.t = "undefined" THEN PrettyEntries(Tail(es), indent)
    ELSE <<indent \o "\"" \o es[1].k \o "\": " \o Pretty(es[1].v, indent)>>
         \o PrettyEntries(Tail(es), indent)

PrettyItems(a, indent) ==
    IF Len(a) = 0 THEN <<>>
    ELSE <<indent \o (IF a[1].t = "undefined" THEN "null" ELSE Pretty(a[1], indent))>>
         \o PrettyItems(Tail(a), indent)

\* JSON.stringify(v, null, 2), `indent` being the indentation of the enclosing line
Pretty(v, indent) ==
    CASE v.t = "arr" ->
           IF Len(v.a) = 0 THEN "[]"
           ELSE "[\n" \o JoinText(PrettyItems(v.a, indent \o "  "), ",\n") \o "\n" \o indent \o "]"
      [] v.t = "obj" ->
           IF Len(PrettyEntries(v.o, "")) = 0 THEN "{}"
           ELSE "{\n" \o JoinText(PrettyEntries(v.o, indent \o "  "), ",\n") \o "\n" \o indent \o "}"
      [] OTHER -> Stringify(v)

RECURSIVE ToText(_)
\* String(v), and so `${v}` in a template literal
ToText(v) ==
    CASE v.t = "str" -> v.s
      [] v.t = "num" -> ToString(v.n)
      [] v.t = "bool" -> (IF v.b THEN "true" ELSE "false")
      [] v.t = "null" -> "null"
      [] v.t = "undefined" -> "undefined"
      [] v.t = "arr" -> JoinText([i \in 1 .. Len(v.a) |->
                                    IF v.a[i].t \in {"null", "undefined"} THEN ""
                                    ELSE ToText(v.a[i])], ",")
      [] v.t = "obj" -> "[object Object]"

(***************************************************************************)
(* utils/retry.ts                                                          *)
(***************************************************************************)
defaultOptions ==
    [maxRetries |-> 3, initialDelay |-> 1000, maxDelay |-> 10000, backoffMultiplier |-> 2]

\* const opts = { ...defaultOptions, ...options }
MergeOptions(options) ==
    [k \in DOMAIN defaultOptions |->
        IF k \in DOMAIN options THEN options[k] ELSE defaultOptions[k]]

\* lastError = error instanceof Error ? error : new Error(String(error))
ToError(e) == IF IsError(e) THEN e ELSE Err(ToText(e))

\* The entry of retryWithBackoff: lines 19-21, before the first loop test.
RetryEnter(options) ==
    /\ opts' = MergeOptions(options)
    /\ delay' = MergeOptions(options).initialDelay
    /\ attempt' = 0
    /\ lastError' = NoValue
    /\ rstate' = "call"
    /\ rvalue' = NoValue
    /\ calls' = 0
    /\ failures' = 0
    /\ lastOutcome' = NoValue
    /\ slept' = <<>>

\* `return await fn()` when fn resolved with v.
RetryFnReturned(v) ==
    /\ rstate' = "returned"
    /\ rvalue' = Ok(v)
    /\ calls' = calls + 1
    /\ lastOutcome' = Ok(v)
    /\ UNCHANGED <<opts, attempt, delay, lastError, failures, slept>>

\* The last attempt is the one with attempt === opts.maxRetries.
IsLastAttemptMutant(a, o) == a + 1 = o.maxRetries

IsLastAttempt(a, o) == a = o.maxRetries

\* The catch block without the suspension: every rejection is rethrown at
\* once, as if no attempt were left.
RetryFnThrewMutant(e) ==
    /\ lastError' = ToError(e)
    /\ calls' = calls + 1
    /\ failures' = failures + 1
    /\ lastOutcome' = Threw(e)
    /\ rstate' = "thrown" /\ rvalue' = ToError(e)
    /\ UNCHANGED <<opts, attempt, delay, slept>>

\* The catch block when fn rejected with e: rethrow on the last attempt,
\* otherwise go on to the suspension.
RetryFnThrew(e) ==
    /\ lastError' = ToError(e)
    /\ calls' = calls + 1
    /\ failures' = failures + 1
    /\ lastOutcome' = Threw(e)
    /\ IF IsLastAttempt(attempt, opts)
         THEN rstate' = "thrown" /\ rvalue' = ToError(e)
         ELSE rstate' = "sleep" /\ rvalue' = rvalue
    /\ UNCHANGED <<opts, attempt, delay, slept>>

\* The backoff without the cap of maxDelay.
NextDelayMutant(d, o) == d * o.backoffMultiplier

\* delay = Math.min(delay * opts.backoffMultiplier, opts.maxDelay)
NextDelay(d, o) == Min(d * o.backoffMultiplier, o.maxDelay)

\* The suspension, the backoff update and the loop increment (lines 34-37, 23).
RetrySleep ==
    /\ rstate = "sleep"
    /\ slept' = Append(slept, delay)
    /\ delay' = NextDelay(delay, opts)
    /\ attempt' = attempt + 1
    /\ rstate' = "call"
    /\ UNCHANGED <<opts, lastError, rvalue, calls, failures, lastOutcome>>

\* The loop test fails with no attempt left to make (only when maxRetries < 0):
\* throw lastError || new Error('Retry failed')
RetryLoopExit ==
    /\ rstate = "call"
    /\ ~(attempt <= opts.maxRetries)
    /\ rstate' = "thrown"
    /\ rvalue' = IF lastError = NoValue THEN Err("Retry failed") ELSE lastError
    /\ UNCHANGED <<opts, attempt, delay, lastError, calls, failures, lastOutcome, slept>>

\* fn may be invoked: the loop test holds.
RetryMayCall == rstate = "call" /\ attempt <= opts.maxRetries

\* The default of generateProfileName's parameter maxLength.
defaultMaxLength == 40

\* No request is being handled.
HandlerIdle ==
    /\ apiKey = TRUE
    /\ hpc = "idle"
    /\ body = NoValue
    /\ files = <<>>
    /\ styleDNA = NoValue
    /\ idx = 0
    /\ structuredPrompts = <<>>
    /\ errors = <<>>
    /\ maxLength = defaultMaxLength
    /\ profileName = NoValue
    /\ res = NoValue
    /\ clientCalls = <<>>
    /\ callResults = <<>>

\* The style extractor tab as it is mounted: lines 9-15.
TabIdle ==
    /\ tabImages = <<>>
    /\ imageNames = <<>>
    /\ styleProfile = Null
    /\ loading = FALSE
    /\ tabError = Null
    /\ extractingRef = FALSE
    /\ pending = <<>>
    /\ depLength = 0

(***************************************************************************)
(* services/briaApi.ts: the Bria API client.                               *)
(***************************************************************************)
\* No client call in progress.
ClientIdle ==
    /\ cop = "none"
    /\ creq = NoValue
    /\ cpc = "none"
    /\ pollI = 0
    /\ requestId = Undefined
    /\ posted = NoValue
    /\ posts = 0
    /\ pollReqs = 0
    /\ lastReply = NoValue
    /\ sawTerminal = FALSE
    /\ pollOutcome = NoValue
    /\ pollWaited = 0

\* An HTTP response of the remote service.
Response(status, data) == [status |-> status, data |-> data]

\* error.response?.status and error.response?.data
ResponseStatus(e) ==
    IF "response" \in DOMAIN e /\ e.response # NoValue THEN Num(e.response.status) ELSE Undefined

ResponseData(e) ==
    IF "response" \in DOMAIN e /\ e.response # NoValue THEN e.response.data ELSE Undefined

\* error.code === 'ENOTFOUND' || ... 'ECONNREFUSED' || ... 'ETIMEDOUT'
IsConnectError(e) == e.code \in {"ENOTFOUND", "ECONNREFUSED", "ETIMEDOUT"}

CannotConnect(e) ==
    Err("Cannot connect to Bria API: " \o e.msg
        \o ". Please check your internet connection and API URL configuration.")

\* response.data.result || response.data
ResultOf(data) == OrElse(Get(data, "result"), data)

\* response.status === 202 && response.data.status_url
IsAsyncResponse(r) == r.status = 202 /\ Truthy(Get(r.data, "status_url"))

maxPollsStyle == 30

maxPollsImage == 60

(***************************************************************************)
(* What the remote service may answer.                                     *)
(***************************************************************************)
\* Two structured prompts the service may produce for an image.
PromptWarm == Obj(<<KV("lighting", Str("warm")), KV("mood", Str("serene"))>>)
PromptScene == Obj(<<KV("objects", Arr(<<Str("car")>>))>>)

StyleResults ==
    { Obj(<<KV("seed", Num(7)), KV("structured_prompt", Str(Stringify(PromptWarm)))>>),
      Obj(<<KV("structured_prompt", Str(Stringify(PromptScene)))>>) }

ImageResults ==
    { Obj(<<KV("image_url", Str("https://img/1.png")), KV("seed", Num(7))>>),
      Obj(<<KV("images", Arr(<<Str("https://img/2.png")>>))>>) }

\* The HTTP errors and transport errors of one request.
HttpError(st, data) ==
    AxiosErr("Request failed with status code " \o ToString(st), "ERR_BAD_RESPONSE",
             Response(st, data))

HttpErrors ==
    { HttpError(400, Obj(<<KV("message", Str("bad prompt"))>>)),
      HttpError(422, Obj(<<KV("error", Obj(<<KV("code", Num(7))>>))>>)),
      HttpError(429, Obj(<<KV("error", Str("quota exceeded"))>>)),
      HttpError(500, Str("upstream down")) }

TransportErrors ==
    { AxiosErr("connect ECONNREFUSED", "ECONNREFUSED", NoValue),
      AxiosErr("socket hang up", "ECONNRESET", NoValue) }

\* The errors of a generation POST and of a style extraction POST.
ImageErrors == HttpErrors \cup TransportErrors

StyleErrors ==
    { HttpError(422, Obj(<<KV("message", Str("unsupported image"))>>)),
      AxiosErr("connect ECONNREFUSED", "ECONNREFUSED", NoValue) }

\* Answers to a POST: a synchronous result (bare or under `result`), an
\* accepted asynchronous job, an accepted job without a status URL, or an error.
PostReplies(remote, errs) ==
    { Response(200, r) : r \in remote }
    \cup { Response(200, Obj(<<KV("result", r), KV("request_id", Str("job-1"))>>)) : r \in remote }
    \cup { Response(202, Obj(<<KV("request_id", Str("job-1")), KV("status_url", Str("/status/job-1"))>>)),
           Response(202, Obj(<<KV("request_id", Str("job-2"))>>)) }
    \cup errs

\* Answers to a status request, in both status vocabularies.
StatusReplies(remote) ==
    { Response(200, Obj(<<KV("status", Str(st)), KV("result", r)>>)) :
          st \in {"COMPLETED", "completed"}, r \in remote }
    \cup { Response(200, Obj(<<KV("status", Str(st)),
                               KV("error", Obj(<<KV("message", Str("remote job failed"))>>))>>)) :
               st \in {"ERROR", "failed"} }
    \cup { Response(200, Obj(<<KV("status", Str("ERROR"))>>)),
           Response(200, Obj(<<KV("status", Str("IN_PROGRESS"))>>)) }
    \cup { HttpError(500, Str("upstream down")),
           AxiosErr("connect ECONNREFUSED", "ECONNREFUSED", NoValue) }

IsResponse(r) == "status" \in DOMAIN r

\* response.data.status of a status reply
StatusOf(reply) == Get(reply.data, "status")

(***************************************************************************)
(* The start of a client call: retryWithBackoff(async () => {...}) with    *)
(* the default options.                                                    *)
(***************************************************************************)
ClientCall(op, request) ==
    /\ cop' = op
    /\ creq' = request
    /\ cpc' = "post"
    /\ pollI' = 0
    /\ requestId' = Undefined
    /\ posted' = NoValue
    /\ posts' = 0
    /\ pollReqs' = 0
    /\ lastReply' = NoValue
    /\ sawTerminal' = FALSE
    /\ pollOutcome' = NoValue
    /\ pollWaited' = 0
    /\ RetryEnter([x \in {} |-> 0])

\* The retried operation resolved with v / rejected with e: control is back
\* in retryWithBackoff.
OperationReturns(v) == RetryFnReturned(v) /\ cpc' = "post"

OperationThrows(e) == RetryFnThrew(e) /\ cpc' = "post"

\* `return await this.poll...(requestId, statusUrl)`: the polling loop starts.
StartPolling(reply) ==
    /\ cpc' = "poll"
    /\ pollI' = 0
    /\ requestId' = Get(reply.data, "request_id")
    /\ pollReqs' = 0
    /\ lastReply' = reply
    /\ sawTerminal' = FALSE
    /\ pollOutcome' = NoValue
    /\ pollWaited' = 0
    /\ UNCHANGED retryVars

(***************************************************************************)
(* extractStyle                                                            *)
(***************************************************************************)
\* A Buffer: its length and its base64 text.
Buffer(len, b64) == [len |-> len, b64 |-> b64]

\* !buffer || buffer.length === 0
IsEmptyBuffer(b) == b.len = 0

\* The StyleExtractResponse built from a result object.
StyleExtractResponse(result) ==
    Obj(<<KV("seed", OrElse(Get(result, "seed"), Num(0))),
          KV("structured_prompt",
             OrElse(Get(result, "structured_prompt"), Str(Stringify(result))))>>)

\* The error extractStyle's catch block throws for an AxiosError.
ExtractStyleError(e) ==
    IF IsConnectError(e) THEN CannotConnect(e)
    ELSE LET errorData == ResponseData(e)
             errorMessage ==
                 OrElse(Get(errorData, "message"),
                   OrElse(Get(errorData, "error"),
                     OrElse(IF IsStr(errorData) THEN errorData
                            ELSE IF errorData = Undefined THEN Undefined
                            ELSE Str(Stringify(errorData)),
                            Str(e.msg))))
         IN  Err("Bria API error (" \o ToText(ResponseStatus(e)) \o "): " \o ToText(errorMessage))

\* What the catch block of the retried operation rethrows: lines 262-291.
ExtractStyleCatch(e) == IF IsAxiosError(e) THEN ExtractStyleError(e) ELSE e

\* One invocation of the retried operation of extractStyle, up to the answer
\* to its POST: lines 175-250.
\* The body extractStyle posts: lines 207-213.
StylePayload(images) ==
    Obj(<<KV("images", Arr(<<Str(images[1].b64)>>)), KV("sync", Bool(FALSE))>>)

ExtractStylePost ==
    /\ cop = "extractStyle" /\ cpc = "post" /\ RetryMayCall
    /\ IF \E i \in 1 .. Len(creq) : IsEmptyBuffer(creq[i])
         THEN /\ OperationThrows(ExtractStyleCatch(
                    Err("Image "
                        \o ToString(CHOOSE i \in 1 .. Len(creq) :
                              /\ IsEmptyBuffer(creq[i])
                              /\ \A j \in 1 .. i - 1 : ~IsEmptyBuffer(creq[j]))
                        \o " is empty or invalid")))
              /\ UNCHANGED <<cop, creq, pollI, requestId, posted, posts, pollReqs,
                             lastReply, sawTerminal, pollOutcome, pollWaited>>
       ELSE IF Len(creq) # 1
         THEN /\ OperationThrows(ExtractStyleCatch(
                    Err("Bria API v2 supports only 1 image per request. Please send images one at a time.")))
              /\ UNCHANGED <<cop, creq, pollI, requestId, posted, posts, pollReqs,
                             lastReply, sawTerminal, pollOutcome, pollWaited>>
       ELSE /\ posted' = StylePayload(creq)
            /\ posts' = posts + 1
            /\ \E reply \in PostReplies(StyleResults, StyleErrors) :
                 IF ~IsResponse(reply)
                   THEN /\ OperationThrows(ExtractStyleCatch(reply))
                        /\ lastReply' = reply
                        /\ UNCHANGED <<pollI, requestId, pollReqs, sawTerminal, pollOutcome, pollWaited>>
                 ELSE IF IsAsyncResponse(reply)
                   THEN StartPolling(reply)
                 ELSE /\ OperationReturns(StyleExtractResponse(ResultOf(reply.data)))
                      /\ lastReply' = reply
                      /\ UNCHANGED <<pollI, requestId, pollReqs, sawTerminal, pollOutcome, pollWaited>>
            /\ UNCHANGED <<cop, creq>>
    /\ UNCHANGED <<handlerVars, tabVars>>

(***************************************************************************)
(* pollStyleExtractStatus                                                  *)
(***************************************************************************)
pollInterval == 2000

\* `await new Promise(resolve => setTimeout(resolve, pollInterval))`, the last
\* statement of the try block of each polling loop (lines 125, 162, 461).
PollWait == pollWaited' = pollInterval

\* The iteration left its try block before that statement.
NoPollWait == pollWaited' = 0

\* The bookkeeping of one status request that got `reply`.
StatusRequested(reply, terminal) ==
    /\ pollReqs' = pollReqs + 1
    /\ lastReply' = reply
    /\ sawTerminal' = (sawTerminal \/ terminal)

\* The polling invocation ends by returning `result` to the retried operation,
\* which returns it.
PollReturns(result) ==
    /\ pollOutcome' = Ok(result)
    /\ OperationReturns(result)
    /\ UNCHANGED pollI

\* The polling invocation ends by throwing e; the catch block of the retried
\* operation rethrows `rethrown`.
PollThrows(e, rethrown) ==
    /\ pollOutcome' = Threw(e)
    /\ OperationThrows(rethrown)
    /\ UNCHANGED pollI

\* The loop goes on to its next iteration, or runs out of iterations and
\* throws the timeout error that follows the loop.
PollContinuesMutant(maxPolls, timeout) ==
    IF pollI + 1 <= maxPolls
      THEN /\ pollI' = pollI + 1
           /\ UNCHANGED <<cpc, pollOutcome, retryVars>>
      ELSE /\ pollOutcome' = Threw(timeout)
           /\ OperationThrows(timeout)
           /\ pollI' = pollI + 1

PollContinues(maxPolls, timeout) ==
    IF pollI + 1 < maxPolls
      THEN /\ pollI' = pollI + 1
           /\ UNCHANGED <<cpc, pollOutcome, retryVars>>
      ELSE /\ pollOutcome' = Threw(timeout)
           /\ OperationThrows(timeout)
           /\ pollI' = pollI + 1

StyleTimeout == Err("Polling timeout for style extraction")

\* The success test of pollStyleExtractStatus with the lower-case status too.
StyleCompletedMutant(status) == status \in {Str("COMPLETED"), Str("completed")}

\* The statuses pollStyleExtractStatus treats as terminal.
StyleCompleted(status) == status = Str("COMPLETED")

StyleFailed(status) == status = Str("ERROR")

\* The catch block of pollStyleExtractStatus (lines 126-130): the timeout error
\* on the last iteration, otherwise the error is dropped and the loop goes on.
StyleCatch(e) ==
    IF pollI = maxPollsStyle - 1
      THEN PollThrows(StyleTimeout, ExtractStyleCatch(StyleTimeout))
      ELSE PollContinues(maxPollsStyle, StyleTimeout)

\* One iteration of the loop of pollStyleExtractStatus: lines 106-131.
PollStyleStep ==
    /\ cop = "extractStyle" /\ cpc = "poll" /\ rstate = "call"
    /\ \E reply \in StatusReplies(StyleResults) :
         IF ~IsResponse(reply)
           THEN StatusRequested(reply, FALSE) /\ NoPollWait /\ StyleCatch(reply)
         ELSE IF StyleCompleted(StatusOf(reply))
           THEN /\ StatusRequested(reply, TRUE)
                /\ NoPollWait
                /\ PollReturns(StyleExtractResponse(ResultOf(reply.data)))
         ELSE IF StyleFailed(StatusOf(reply))
           THEN /\ StatusRequested(reply, TRUE)
                /\ NoPollWait
                /\ StyleCatch(Err(ToText(OrElse(Get(Get(reply.data, "error"), "message"),
                                                Str("Style extraction failed")))))
         ELSE /\ StatusRequested(reply, FALSE)
              /\ PollWait
              /\ PollContinues(maxPollsStyle, ExtractStyleCatch(StyleTimeout))
    /\ UNCHANGED <<cop, creq, requestId, posted, posts>>
    /\ UNCHANGED <<handlerVars, tabVars>>

(***************************************************************************)
(* generateImage                                                           *)
(***************************************************************************)
\* The body generateImage posts for `request`: lines 312-329.
ImagePayload(request) ==
    LET p0 == Obj(<<KV("sync", Bool(Get(request, "sync") # Bool(FALSE)))>>)
        p1 == IF Truthy(Get(request, "structured_prompt"))
                THEN Put(p0, "structured_prompt", Get(request, "structured_prompt")) ELSE p0
        p2 == IF Truthy(Get(request, "prompt")) THEN Put(p1, "prompt", Get(request, "prompt")) ELSE p1
    IN  IF Get(request, "seed") # Undefined THEN Put(p2, "seed", Get(request, "seed")) ELSE p2

\* result.image_url || result.images?.[0]
ImageUrlOf(result) ==
    OrElse(Get(result, "image_url"),
           IF IsArr(Get(result, "images")) /\ Len(Get(result, "images").a) > 0
             THEN Get(result, "images").a[1] ELSE Undefined)

\* The ImageGenerateResponse of the synchronous path: lines 372-377.
SyncImageResponse(data, request) ==
    LET result == ResultOf(data)
    IN  Obj(<<KV("image_url", ImageUrlOf(result)),
              KV("seed", OrElse(Get(result, "seed"), OrElse(Get(request, "seed"), Num(0)))),
              KV("request_id", Get(data, "request_id"))>>)

\* The ImageGenerateResponse of the polling path: lines 448-453.
PolledImageResponse(data, id) ==
    LET result == ResultOf(data)
    IN  Obj(<<KV("image_url", ImageUrlOf(result)),
              KV("seed", OrElse(Get(result, "seed"), Num(0))),
              KV("request_id", id)>>)

\* The error generateImage's catch block throws for an AxiosError: lines 389-425.
GenerateImageError(e) ==
    IF IsConnectError(e) THEN CannotConnect(e)
    ELSE LET errorData == ResponseData(e)
             errorMessage ==
                 IF IsStr(errorData) THEN errorData.s
                 ELSE IF Truthy(Get(errorData, "message")) THEN ToText(Get(errorData, "message"))
                 ELSE IF Truthy(Get(errorData, "error"))
                   THEN IF IsStr(Get(errorData, "error")) THEN Get(errorData, "error").s
                        ELSE IF TypeofObject(Get(errorData, "error"))
                          THEN Pretty(Get(errorData, "error"), "")
                        ELSE ""
                 ELSE e.msg
         IN  Err("Bria API error (" \o ToText(ResponseStatus(e)) \o "): " \o errorMessage)

\* What the catch block of the retried operation rethrows: lines 389-427.
GenerateImageCatch(e) == IF IsAxiosError(e) THEN GenerateImageError(e) ELSE e

\* One invocation of the retried operation of generateImage, up to the answer
\* to its POST: lines 298-377.
GenerateImagePost ==
    /\ cop = "generateImage" /\ cpc = "post" /\ RetryMayCall
    /\ posted' = ImagePayload(creq)
    /\ posts' = posts + 1
    /\ \E reply \in PostReplies(ImageResults, ImageErrors) :
         IF ~IsResponse(reply)
           THEN /\ OperationThrows(GenerateImageCatch(reply))
                /\ lastReply' = reply
                /\ UNCHANGED <<pollI, requestId, pollReqs, sawTerminal, pollOutcome, pollWaited>>
         ELSE IF IsAsyncResponse(reply)
           THEN StartPolling(reply)
         ELSE /\ OperationReturns(SyncImageResponse(reply.data, creq))
              /\ lastReply' = reply
              /\ UNCHANGED <<pollI, requestId, pollReqs, sawTerminal, pollOutcome, pollWaited>>
    /\ UNCHANGED <<cop, creq>>
    /\ UNCHANGED <<handlerVars, tabVars>>

(***************************************************************************)
(* pollImageGeneration                                                     *)
(***************************************************************************)
ImageTimeout == Err("Polling timeout for image generation")

\* The statuses pollImageGeneration treats as terminal.
ImageCompleted(status) == status \in {Str("COMPLETED"), Str("completed")}

ImageFailed(status) == status \in {Str("ERROR"), Str("failed")}

\* The catch block of pollImageGeneration (lines 462-470): the timeout error on
\* the last iteration; an error that carries an HTTP response is rethrown;
\* any other error is dropped and the loop goes on.
ImageCatch(e) ==
    IF pollI = maxPollsImage - 1
      THEN PollThrows(ImageTimeout, GenerateImageCatch(ImageTimeout))
    ELSE IF IsAxiosError(e) /\ Truthy(ResponseStatus(e))
      THEN PollThrows(e, GenerateImageCatch(e))
    ELSE PollContinues(maxPollsImage, ImageTimeout)

\* One iteration of the loop of pollImageGeneration: lines 436-471.
PollImageStep ==
    /\ cop = "generateImage" /\ cpc = "poll" /\ rstate = "call"
    /\ \E reply \in StatusReplies(ImageResults) :
         IF ~IsResponse(reply)
           THEN StatusRequested(reply, FALSE) /\ NoPollWait /\ ImageCatch(reply)
         ELSE IF ImageCompleted(StatusOf(reply))
           THEN /\ StatusRequested(reply, TRUE)
                /\ NoPollWait
                /\ PollReturns(PolledImageResponse(reply.data, requestId))
         ELSE IF ImageFailed(StatusOf(reply))
           THEN /\ StatusRequested(reply, TRUE)
                /\ NoPollWait
                /\ ImageCatch(Err(ToText(OrElse(Get(Get(reply.data, "error"), "message"),
                                                Str("Image generation failed")))))
         ELSE /\ StatusRequested(reply, FALSE)
              /\ PollWait
              /\ PollContinues(maxPollsImage, ImageTimeout)
    /\ UNCHANGED <<cop, creq, requestId, posted, posts>>
    /\ UNCHANGED <<handlerVars, tabVars>>

(***************************************************************************)
(* preview                                                                 *)
(***************************************************************************)
maxPollsPreview == 30

\* The number 7.5, the default of render.guidance, held in tenths.
DefaultGuidance == [t |-> "num", n |-> 75, tenths |-> TRUE]

\* mapPresetToFIBO(preset, prompt, negativePrompt): lines 523-537.
mapPresetToFIBO(preset, prompt, negativePrompt) ==
    LET render == Get(preset, "render")
    IN  Obj(<<KV("prompt", OrElse(prompt, Get(preset, "prompt"))),
              KV("negative_prompt",
                 OrElse(negativePrompt, OrElse(Get(preset, "negativePrompt"), Str("")))),
              KV("controls", OrElse(Get(preset, "controls"), Obj(<<>>))),
              KV("render",
                 Obj(<<KV("steps", OrElse(Get(render, "steps"), Num(30))),
                       KV("guidance", OrElse(Get(render, "guidance"), DefaultGuidance)),
                       KV("seed", Get(render, "seed")),
                       KV("resolution", OrElse(Get(render, "resolution"), Str("1024x1024")))>>)),
              KV("film", OrElse(Get(preset, "film"), Obj(<<>>))),
              KV("expansion", OrElse(Get(preset, "expansion"), Obj(<<>>)))>>)

\* What the catch block of the retried operation of preview rethrows:
\* lines 93-98.
PreviewCatch(e) ==
    IF IsAxiosError(e)
      THEN Err("Bria API error: "
               \o ToText(OrElse(Get(ResponseData(e), "message"), Str(e.msg))))
      ELSE e

\* Answers to the POST of preview: an accepted job named by request_id or by
\* id, or an error.
PreviewPostReplies ==
    { Response(200, Obj(<<KV("request_id", Str("job-1"))>>)),
      Response(200, Obj(<<KV("id", Str("job-2"))>>)),
      HttpError(400, Obj(<<KV("message", Str("bad prompt"))>>)),
      AxiosErr("connect ECONNREFUSED", "ECONNREFUSED", NoValue) }

\* Answers to a status request of preview, in both status vocabularies.
PreviewStatusReplies ==
    { Response(200, Obj(<<KV("status", Str(st)),
                          KV("images", Arr(<<Str("https://img/1.png")>>))>>)) :
          st \in {"completed", "COMPLETED"} }
    \cup { Response(200, Obj(<<KV("status", Str(st)), KV("error", Str("out of memory"))>>)) :
               st \in {"failed", "ERROR"} }
    \cup { Response(200, Obj(<<KV("status", Str(st))>>)) :
               st \in {"completed", "failed", "processing"} }
    \cup { HttpError(500, Str("upstream down")),
           AxiosErr("connect ECONNREFUSED", "ECONNREFUSED", NoValue) }

\* One invocation of the retried operation of preview, up to the answer to
\* its POST: lines 84-92.
PreviewPost ==
    /\ cop = "preview" /\ cpc = "post" /\ RetryMayCall
    /\ posted' = mapPresetToFIBO(Get(creq, "preset"), Get(creq, "prompt"),
                                 Get(creq, "negativePrompt"))
    /\ posts' = posts + 1
    /\ \E reply \in PreviewPostReplies :
         IF ~IsResponse(reply)
           THEN /\ OperationThrows(PreviewCatch(reply))
                /\ lastReply' = reply
                /\ UNCHANGED <<pollI, requestId, pollReqs, sawTerminal, pollOutcome, pollWaited>>
           ELSE /\ cpc' = "poll"
                /\ pollI' = 0
                /\ requestId' = OrElse(Get(reply.data, "request_id"), Get(reply.data, "id"))
                /\ pollReqs' = 0
                /\ lastReply' = reply
                /\ sawTerminal' = FALSE
                /\ pollOutcome' = NoValue
                /\ pollWaited' = 0
                /\ UNCHANGED retryVars
    /\ UNCHANGED <<cop, creq>>
    /\ UNCHANGED <<handlerVars, tabVars>>

PreviewTimeout == Err("Polling timeout")

\* The PreviewResponse of a status reply: lines 146-158.
PreviewResponse(data, id) ==
    IF Get(data, "status") = Str("completed")
      THEN Obj(<<KV("requestId", id), KV("status", Str("completed")),
                 KV("images", OrElse(Get(data, "images"), Arr(<<>>)))>>)
      ELSE Obj(<<KV("requestId", id), KV("status", Str("failed")),
                 KV("error", OrElse(Get(data, "error"), Str("Generation failed")))>>)

\* The statuses pollPreviewStatus treats as terminal.
PreviewCompleted(status) == status = Str("completed")

PreviewFailed(status) == status = Str("failed")

\* One iteration of the loop of pollPreviewStatus: lines 140-166.
PollPreviewStep ==
    /\ cop = "preview" /\ cpc = "poll" /\ rstate = "call"
    /\ \E reply \in PreviewStatusReplies :
         IF ~IsResponse(reply)
           THEN /\ StatusRequested(reply, FALSE)
                /\ NoPollWait
                /\ IF pollI = maxPollsPreview - 1
                     THEN PollThrows(PreviewTimeout, PreviewCatch(PreviewTimeout))
                     ELSE PollContinues(maxPollsPreview, PreviewTimeout)
         ELSE IF PreviewCompleted(StatusOf(reply)) \/ PreviewFailed(StatusOf(reply))
           THEN /\ StatusRequested(reply, TRUE)
                /\ NoPollWait
                /\ PollReturns(PreviewResponse(reply.data, requestId))
         ELSE /\ StatusRequested(reply, FALSE)
              /\ PollWait
              /\ PollContinues(maxPollsPreview, PreviewTimeout)
    /\ UNCHANGED <<cop, creq, requestId, posted, posts>>
    /\ UNCHANGED <<handlerVars, tabVars>>

\* The suspension between two attempts of a client call, and the attempts
\* running out (never, with the default options).
ClientBackoff ==
    /\ cop # "none"
    /\ RetrySleep
    /\ UNCHANGED <<clientVars, handlerVars, tabVars>>

(***************************************************************************)
(* A client call as its caller sees it.  A call ends with what the last    *)
(* invocation of its retried operation did, and that was decided by one    *)
(* answer of the remote service.  CallOutcomes lists, per deciding answer, *)
(* the result of the call; ClientContract (checked under SpecClient) says  *)
(* that the client produces nothing else.                                  *)
(***************************************************************************)
Outcome(reply, result) == [reply |-> reply, result |-> result]

ExtractStyleOutcomes(images) ==
    IF \E i \in 1 .. Len(images) : IsEmptyBuffer(images[i])
      THEN { Outcome(NoValue,
                Threw(Err("Image "
                    \o ToString(CHOOSE i \in 1 .. Len(images) :
                          /\ IsEmptyBuffer(images[i])
                          /\ \A j \in 1 .. i - 1 : ~IsEmptyBuffer(images[j]))
                    \o " is empty or invalid"))) }
    ELSE IF Len(images) # 1
      THEN { Outcome(NoValue,
                Threw(Err("Bria API v2 supports only 1 image per request. Please send images one at a time."))) }
    ELSE { Outcome(r, Threw(ExtractStyleCatch(r))) :
               r \in { x \in PostReplies(StyleResults, StyleErrors) : ~IsResponse(x) } }
         \cup { Outcome(r, Ok(StyleExtractResponse(ResultOf(r.data)))) :
               r \in { x \in PostReplies(StyleResults, StyleErrors) : IsResponse(x) /\ ~IsAsyncResponse(x) } }
         \cup { Outcome(r, Ok(StyleExtractResponse(ResultOf(r.data)))) :
               r \in { x \in StatusReplies(StyleResults) :
                         IsResponse(x) /\ StyleCompleted(StatusOf(x)) } }
         \cup { Outcome(r, Threw(StyleTimeout)) :
               r \in { x \in StatusReplies(StyleResults) :
                         ~(IsResponse(x) /\ StyleCompleted(StatusOf(x))) } }

GenerateImageOutcomes(request) ==
    { Outcome(r, Threw(GenerateImageCatch(r))) :
          r \in { x \in PostReplies(ImageResults, ImageErrors) : ~IsResponse(x) } }
    \cup { Outcome(r, Ok(SyncImageResponse(r.data, request))) :
          r \in { x \in PostReplies(ImageResults, ImageErrors) : IsResponse(x) /\ ~IsAsyncResponse(x) } }
    \cup { Outcome(r, Ok(PolledImageResponse(r.data, Str("job-1")))) :
          r \in { x \in StatusReplies(ImageResults) :
                    IsResponse(x) /\ ImageCompleted(StatusOf(x)) } }
    \cup { Outcome(r, Threw(ImageTimeout)) :
          r \in { x \in StatusReplies(ImageResults) :
                    ~(IsResponse(x) /\ ImageCompleted(StatusOf(x))) } }
    \cup { Outcome(r, Threw(GenerateImageCatch(r))) :
          r \in { x \in StatusReplies(ImageResults) :
                    IsAxiosError(x) /\ Truthy(ResponseStatus(x)) } }

\* The body of the POSTs of a call (none when extractStyle rejects its images).
PostedBy(op, request) ==
    IF op = "generateImage" THEN ImagePayload(request)
    ELSE IF Len(request) # 1 \/ IsEmptyBuffer(request[1]) THEN NoValue
    ELSE StylePayload(request)

CallOutcomes(op, request) ==
    IF op = "extractStyle" THEN ExtractStyleOutcomes(request) ELSE GenerateImageOutcomes(request)

\* The whole of a client call, from the call to its result.
ClientCompletes ==
    /\ cop # "none" /\ rstate = "call"
    /\ \E out \in CallOutcomes(cop, creq) :
         /\ lastReply' = out.reply
         /\ lastOutcome' = out.result
         /\ rstate' = IF out.result.kind = "ok" THEN "returned" ELSE "thrown"
         /\ rvalue' = IF out.result.kind = "ok" THEN out.result ELSE ToError(out.result.err)
    /\ posted' = PostedBy(cop, creq)
    /\ UNCHANGED <<opts, attempt, delay, lastError, calls, failures, slept>>
    /\ UNCHANGED <<cop, creq, cpc, pollI, requestId, posts, pollReqs, sawTerminal, pollOutcome,
                   pollWaited>>
    /\ UNCHANGED <<handlerVars, tabVars>>

\* What SpecClient guarantees to the callers of the client.
ClientContract ==
    rstate \in {"returned", "thrown"} =>
        /\ Outcome(lastReply, lastOutcome) \in CallOutcomes(cop, creq)
        /\ rvalue = IF lastOutcome.kind = "ok" THEN lastOutcome ELSE ToError(lastOutcome.err)
        /\ posted = PostedBy(cop, creq)

(***************************************************************************)
(* utils/styleDnaParser.ts: the style DNA parser.                          *)
(***************************************************************************)
\* The JSON documents a structured prompt may hold.
LightingDetail == Obj(<<KV("conditions", Str("soft")), KV("direction", Str("left"))>>)

StyleDocuments ==
    { Obj(<<>>),
      PromptWarm,
      PromptScene,
      Obj(<<KV("lighting", LightingDetail), KV("objects", Arr(<<Str("car")>>))>>),
      Obj(<<KV("lighting", Obj(<<KV("direction", Str("left"))>>))>>),
      Obj(<<KV("lighting", Num(3))>>),
      Obj(<<KV("light", Str("hard")), KV("lighting", Str("warm"))>>),
      Obj(<<KV("color_palette", Arr(<<Str("teal"), Str("orange")>>)), KV("vibe", Str("calm"))>>),
      Obj(<<KV("colors", Str("muted")), KV("style", Str("film")), KV("time", Str("dusk"))>>),
      Obj(<<KV("technical", Str("50mm"))>>),
      Obj(<<KV("camera", Obj(<<KV("dof", Str("shallow")), KV("iso", Str("100"))>>))>>),
      Obj(<<KV("photography", Obj(<<KV("iso", Str("100"))>>))>>),
      Obj(<<KV("mood", Str("")), KV("season", Str("winter")), KV("weather", Str("fog"))>>),
      Obj(<<KV("mood", Obj(<<KV("primary", Str("calm"))>>))>>),
      Arr(<<Str("warm")>>),
      Str("warm"),
      Num(5),
      Null }

\* Further documents, for the profile namer.
NamerDocuments ==
    { Obj(<<KV("time", Str("Golden hour")), KV("location", Str("architectural")),
            KV("lighting", Str("high contrast")), KV("technical", Str("long exposure"))>>),
      Obj(<<KV("location", Str("Architectural facade"))>>),
      Obj(<<KV("weather", Str("foggy")), KV("atmosphere", Str("clear and foggy")),
            KV("lighting", Obj(<<KV("conditions", Str("soft"))>>))>>),
      Obj(<<KV("atmosphere", Arr(<<Str("hazy")>>)), KV("lighting", Str("warm"))>>),
      Obj(<<KV("time", Str("dusk")), KV("lighting", Str("warm")), KV("colors", Str("warm"))>>) }

\* Further documents, for the parser alone: keys in another order than the
\* clauses of the prompt, scene content only, and mixed-case or composite keys.
PromptReversed == Obj(<<KV("mood", Str("serene")), KV("lighting", Str("warm"))>>)

PromptFull ==
    Obj(<<KV("weather", Str("fog")), KV("season", Str("winter")), KV("time_of_day", Str("dusk")),
          KV("rendering_style", Str("film")),
          KV("technical", Obj(<<KV("aperture", Str("f2")), KV("lens", Str("50mm")),
                                KV("focus", Str("sharp")), KV("dof", Str("shallow"))>>)),
          KV("tone", Str("muted")), KV("atmosphere", Str("hazy")), KV("mood", Str("calm")),
          KV("palette", Arr(<<Str("teal"), Str("orange")>>)),
          KV("illumination", Obj(<<KV("type", Str("natural")), KV("quality", Str("soft"))>>))>>)

ParserDocuments ==
    { PromptReversed,
      PromptFull,
      Obj(<<KV("objects", Arr(<<Str("car")>>)),
            KV("composition", Obj(<<KV("rule", Str("thirds"))>>))>>),
      Obj(<<KV("aesthetics", Obj(<<KV("composition", Str("centered"))>>)),
            KV("objects", Arr(<<Str("car")>>))>>),
      Obj(<<KV("aesthetics", Obj(<<KV("composition", Str("centered")),
                                   KV("color", Str("teal"))>>)),
            KV("Lighting_Setup", Str("soft")), KV("subject", Str("car"))>>),
      Obj(<<KV("visual_aesthetics", Obj(<<KV("composition", Str("centered")),
                                          KV("color", Str("teal"))>>))>>) }

\* Every JSON text of the model, with the document it denotes.
JsonDocuments ==
    { [text |-> Stringify(d), value |-> d] :
          d \in StyleDocuments \cup NamerDocuments \cup ParserDocuments }

\* JSON.parse(text): the document whose JSON text is `text`, a SyntaxError
\* for any other text.
JSONParse(text) ==
    IF \E d \in JsonDocuments : d.text = text
      THEN Ok((CHOOSE d \in JsonDocuments : d.text = text).value)
      ELSE Threw(Err("SyntaxError: Unexpected token in JSON"))

\* if (source.from) target.to = source.from
CopyField(target, source, from, to) ==
    IF Truthy(Get(source, from)) THEN Put(target, to, Get(source, from)) ELSE target

RECURSIVE CopyFields(_, _, _)
\* A run of such statements, pairs[i] being <<from, to>>.
CopyFields(target, source, pairs) ==
    IF Len(pairs) = 0 THEN target
    ELSE CopyFields(CopyField(target, source, pairs[1][1], pairs[1][2]), source, Tail(pairs))

\* parsed.technical || parsed.camera || parsed.photography
TechSourceOf(parsed) ==
    OrElse(Get(parsed, "technical"), OrElse(Get(parsed, "camera"), Get(parsed, "photography")))

\* The technical block of parseStructuredPrompt: lines 338-349.
CopyTechnical(dna, parsed) ==
    IF Truthy(TechSourceOf(parsed))
      THEN Put(dna, "technical",
               CopyFields(Obj(<<>>), TechSourceOf(parsed),
                          << <<"depth_of_field", "depth_of_field">>, <<"dof", "depth_of_field">>,
                             <<"focus", "focus">>, <<"lens", "lens">>,
                             <<"aperture", "aperture">>, <<"iso", "iso">>,
                             <<"shutter_speed", "shutter_speed">> >>))
      ELSE dna

\* The try block with a copy of the key `objects` among its statements.
ExtractStyleDNAMutant(parsed) ==
    CopyFields(Obj(<<KV("original", parsed)>>), parsed,
               << <<"lighting", "lighting">>, <<"mood", "mood">>, <<"objects", "objects">> >>)

\* The try block of parseStructuredPrompt, for a parsed document other than
\* null: lines 318-363.
ExtractStyleDNA(parsed) ==
    LET d0 == Obj(<<KV("original", parsed)>>)
        d1 == CopyFields(d0, parsed,
                  << <<"lighting", "lighting">>, <<"light", "lighting">>,
                     <<"illumination", "lighting">>,
                     <<"color_palette", "color_palette">>, <<"colors", "colors">>,
                     <<"palette", "color_palette">>,
                     <<"mood", "mood">>, <<"atmosphere", "atmosphere">>, <<"tone", "tone">>,
                     <<"vibe", "mood">> >>)
        d2 == CopyTechnical(d1, parsed)
    IN  CopyFields(d2, parsed,
                  << <<"artistic_style", "artistic_style">>,
                     <<"photographic_style", "photographic_style">>,
                     <<"rendering_style", "rendering_style">>, <<"style", "artistic_style">>,
                     <<"time_of_day", "time_of_day">>, <<"time", "time_of_day">>,
                     <<"season", "season">>, <<"weather", "weather">> >>)

\* parseStructuredPrompt(structuredPromptStr).  Object.keys(null) throws, so
\* the text "null" ends in the catch block like a text that is not JSON.
parseStructuredPrompt(structuredPromptStr) ==
    LET parsed == JSONParse(structuredPromptStr)
    IN  IF parsed.kind = "threw" \/ parsed.val = Null
          THEN Obj(<<KV("original", Str(structuredPromptStr))>>)
          ELSE ExtractStyleDNA(parsed.val)

\* array.join(sep)
ArrayJoin(a, sep) ==
    JoinText([i \in 1 .. Len(a) |->
                 IF a[i].t \in {"null", "undefined"} THEN "" ELSE ToText(a[i])], sep)

\* parts after `if (source.key) parts.push(`label: ${source.key}`)`
PushField(parts, source, key, label) ==
    IF Truthy(Get(source, key))
      THEN Append(parts, label \o ": " \o ToText(Get(source, key)))
      ELSE parts

RECURSIVE PushFields(_, _, _)
\* A run of such statements, pairs[i] being <<key, label>>.
PushFields(parts, source, pairs) ==
    IF Len(pairs) = 0 THEN parts
    ELSE PushFields(PushField(parts, source, pairs[1][1], pairs[1][2]), source, Tail(pairs))

\* cleanLighting of an object-valued lighting: lines 391-394.
CleanLighting(lighting) ==
    LET keep(list, key) == IF Truthy(Get(lighting, key)) THEN Append(list, Get(lighting, key))
                           ELSE list
    IN  keep(keep(keep(<<>>, "conditions"), "quality"), "type")

\* The lighting block of styleDNAToPrompt: lines 383-400.
PushLighting(parts, dna) ==
    LET lighting == Get(dna, "lighting")
    IN  IF ~Truthy(lighting) THEN parts
        ELSE IF IsStr(lighting) THEN Append(parts, "lighting: " \o lighting.s)
        ELSE IF TypeofObject(lighting) /\ Len(CleanLighting(lighting)) > 0
          THEN Append(parts, "lighting: " \o ArrayJoin(CleanLighting(lighting), ", "))
        ELSE parts

\* The colour block of styleDNAToPrompt: lines 402-408.
PushColors(parts, dna) ==
    LET colors == OrElse(Get(dna, "color_palette"), Get(dna, "colors"))
    IN  IF ~Truthy(colors) THEN parts
        ELSE Append(parts, "color palette: "
                 \o (IF IsArr(colors) THEN ArrayJoin(colors.a, ", ") ELSE Stringify(colors)))

\* The style block of styleDNAToPrompt: lines 430-433.
PushStyle(parts, dna) ==
    LET style == OrElse(Get(dna, "artistic_style"),
                        OrElse(Get(dna, "photographic_style"), Get(dna, "rendering_style")))
    IN  IF Truthy(style) THEN Append(parts, "style: " \o ToText(style)) ELSE parts

\* styleDNAToPrompt with the mood clause first.
styleDNAToPromptMutant(dna) ==
    LET p1 == PushColors(PushLighting(PushFields(<<>>, dna, << <<"mood", "mood">> >>), dna), dna)
        p2 == PushFields(p1, dna, << <<"atmosphere", "atmosphere">>, <<"tone", "tone">> >>)
        p3 == IF Truthy(Get(dna, "technical"))
                THEN PushFields(p2, Get(dna, "technical"),
                         << <<"depth_of_field", "depth of field">>, <<"focus", "focus">>,
                            <<"lens", "lens">>, <<"aperture", "aperture">> >>)
                ELSE p2
        p4 == PushFields(PushStyle(p3, dna), dna,
                         << <<"time_of_day", "time">>, <<"season", "season">>,
                            <<"weather", "weather">> >>)
    IN  JoinText(p4, ", ")

\* styleDNAToPrompt(styleDNA)
styleDNAToPrompt(dna) ==
    LET p1 == PushColors(PushLighting(<<>>, dna), dna)
        p2 == PushFields(p1, dna, << <<"mood", "mood">>, <<"atmosphere", "atmosphere">>,
                                     <<"tone", "tone">> >>)
        p3 == IF Truthy(Get(dna, "technical"))
                THEN PushFields(p2, Get(dna, "technical"),
                         << <<"depth_of_field", "depth of field">>, <<"focus", "focus">>,
                            <<"lens", "lens">>, <<"aperture", "aperture">> >>)
                ELSE p2
        p4 == PushFields(PushStyle(p3, dna), dna,
                         << <<"time_of_day", "time">>, <<"season", "season">>,
                            <<"weather", "weather">> >>)
    IN  JoinText(p4, ", ")

\* createStyleTransferPrompt(newSubject, styleDNA)
createStyleTransferPrompt(newSubject, dna) ==
    IF styleDNAToPrompt(dna) # ""
      THEN newSubject \o ", rendered with: " \o styleDNAToPrompt(dna)
      ELSE newSubject \o ", maintaining the same visual style, lighting, and atmosphere"

(***************************************************************************)
(* utils/profileNameGenerator.ts: the style attribute extractor and the    *)
(* profile namer.                                                          *)
(***************************************************************************)
upperCase == "ABCDEFGHIJKLMNOPQRSTUVWXYZ"
lowerCase == "abcdefghijklmnopqrstuvwxyz"

\* The character c, a letter of alphabet `from`, in alphabet `to`.
MapLetter(c, from, to) ==
    IF \E i \in 1 .. Len(from) : SubSeq(from, i, i) = c
      THEN LET i == CHOOSE i \in 1 .. Len(from) : SubSeq(from, i, i) = c IN SubSeq(to, i, i)
      ELSE c

RECURSIVE toLowerCase(_)
\* text.toLowerCase()
toLowerCase(text) ==
    IF text = "" THEN ""
    ELSE MapLetter(SubSeq(text, 1, 1), upperCase, lowerCase)
         \o toLowerCase(SubSeq(text, 2, Len(text)))

RECURSIVE Split(_, _)
\* text.split(sep), sep being one character
Split(text, sep) ==
    IF \E i \in 1 .. Len(text) : SubSeq(text, i, i) = sep
      THEN LET i == CHOOSE i \in 1 .. Len(text) :
                        /\ SubSeq(text, i, i) = sep
                        /\ \A j \in 1 .. i - 1 : SubSeq(text, j, j) # sep
           IN  <<SubSeq(text, 1, i - 1)>> \o Split(SubSeq(text, i + 1, Len(text)), sep)
      ELSE <<text>>

\* extractKeywords(text, keywords); the keywords are lower-case literals
extractKeywords(text, keywords) ==
    LET lowerText == toLowerCase(text)
    IN  SelectSeq(keywords, LAMBDA keyword : Includes(lowerText, keyword))

\* colors.some(c => list.some(x => c.includes(x)))
SomeIncludes(colors, list) ==
    \E i \in 1 .. Len(colors) : \E j \in 1 .. Len(list) : Includes(colors[i], list[j])

\* extractColorDescriptors(colorData)
extractColorDescriptors(colorData) ==
    IF IsArr(colorData)
      THEN LET colors == [i \in 1 .. Len(colorData.a) |-> toLowerCase(ToText(colorData.a[i]))]
               hasCool == SomeIncludes(colors, <<"blue", "cyan", "teal", "turquoise", "#0", "#1",
                                                 "#2", "#3", "#4", "#5">>)
               hasWarm == SomeIncludes(colors, <<"red", "orange", "yellow", "gold", "#f", "#e",
                                                 "#d", "#c">>)
           IN  (IF hasCool /\ ~hasWarm THEN <<"cool">> ELSE <<>>)
               \o (IF hasWarm /\ ~hasCool THEN <<"warm">> ELSE <<>>)
               \o (IF hasCool /\ hasWarm THEN <<"balanced">> ELSE <<>>)
               \o (IF SomeIncludes(colors, <<"blue">>) THEN <<"blue">> ELSE <<>>)
               \o (IF SomeIncludes(colors, <<"gold", "yellow">>) THEN <<"golden">> ELSE <<>>)
               \o (IF SomeIncludes(colors, <<"gray", "grey">>) THEN <<"neutral">> ELSE <<>>)
    ELSE IF IsStr(colorData)
      THEN extractKeywords(colorData.s,
                           <<"cool", "warm", "vibrant", "muted", "pastel", "bold", "neutral">>)
    ELSE <<>>

\* The attribute types, in the priority order of getTopAttributes.
priorityOrder ==
    <<"time", "weather", "location", "lighting", "mood", "colors", "atmosphere", "technical">>

\* The keywords of each attribute type: lines 40-81.
KeywordsOf ==
    [time |-> <<"morning", "afternoon", "evening", "night", "dawn", "dusk", "twilight",
                "golden hour", "blue hour", "midday">>,
     weather |-> <<"sunny", "cloudy", "rainy", "snowy", "foggy", "overcast", "clear", "stormy">>,
     location |-> <<"urban", "city", "street", "nature", "indoor", "outdoor", "studio",
                    "landscape", "portrait", "architectural">>,
     lighting |-> <<"warm", "cold", "soft", "harsh", "natural", "artificial", "golden", "blue",
                    "dramatic", "even", "high contrast", "low key", "bright", "dim">>,
     mood |-> <<"serene", "dramatic", "peaceful", "energetic", "calm", "vibrant", "moody",
                "cheerful", "melancholic", "mysterious", "playful", "elegant">>,
     atmosphere |-> <<"crisp", "hazy", "foggy", "clear", "ethereal", "intimate", "spacious",
                      "cozy", "urban", "rural">>,
     technical |-> <<"shallow depth", "bokeh", "wide angle", "telephoto", "macro",
                     "long exposure", "sharp">>]

\* The field of the parsed prompt an attribute type is read from: the first
\* truthy one of its alternatives.
AttributeSource(parsed, type) ==
    CASE type = "time" -> OrElse(Get(parsed, "time_of_day"), Get(parsed, "time"))
      [] type = "weather" -> Get(parsed, "weather")
      [] type = "location" ->
           OrElse(Get(parsed, "environment"), OrElse(Get(parsed, "location"), Get(parsed, "setting")))
      [] type = "lighting" -> Get(parsed, "lighting")
      [] type = "mood" -> OrElse(Get(parsed, "mood"), Get(parsed, "vibe"))
      [] type = "colors" ->
           OrElse(Get(parsed, "colors"), OrElse(Get(parsed, "color_palette"), Get(parsed, "palette")))
      [] type = "atmosphere" -> Get(parsed, "atmosphere")
      [] type = "technical" ->
           OrElse(Get(parsed, "technical"), OrElse(Get(parsed, "photography"), Get(parsed, "camera")))

\* The types whose source is stringified when it is not text; the source of
\* any other type is used as text, which throws when it is not.
StringifiedTypes == {"lighting", "technical"}

\* One attribute of extractStyleAttributes.
AttributeOf(parsed, type) ==
    LET source == AttributeSource(parsed, type)
    IN  IF ~Truthy(source) THEN <<>>
        ELSE IF type = "colors" THEN extractColorDescriptors(source)
        ELSE extractKeywords(IF IsStr(source) THEN source.s ELSE Stringify(source),
                             KeywordsOf[type])

\* extractStyleAttributes with a catch block that scans the raw text.
extractStyleAttributesMutant(structuredPrompt) ==
    LET parsed == JSONParse(structuredPrompt)
        types == { priorityOrder[i] : i \in 1 .. Len(priorityOrder) }
    IN  IF parsed.kind = "threw"
          THEN [type \in types |-> IF type = "colors" THEN <<>>
                                   ELSE extractKeywords(structuredPrompt, KeywordsOf[type])]
        ELSE IF parsed.val = Null THEN [type \in {} |-> <<>>]
        ELSE [type \in types |-> AttributeOf(parsed.val, type)]

\* extractStyleAttributes(structuredPrompt): the attributes, or {} (here the
\* empty function) when the try block throws: the text is not JSON, it is
\* "null", or a source used as text is not text.
extractStyleAttributes(structuredPrompt) ==
    LET parsed == JSONParse(structuredPrompt)
        types == { priorityOrder[i] : i \in 1 .. Len(priorityOrder) }
    IN  IF \/ parsed.kind = "threw"
           \/ parsed.val = Null
           \/ \E type \in types \ (StringifiedTypes \cup {"colors"}) :
                 /\ Truthy(AttributeSource(parsed.val, type))
                 /\ ~IsStr(AttributeSource(parsed.val, type))
          THEN [type \in {} |-> <<>>]
          ELSE [type \in types |-> AttributeOf(parsed.val, type)]

RECURSIVE Dedupe(_)
\* Array.from(new Set(list))
Dedupe(list) ==
    IF Len(list) = 0 THEN <<>>
    ELSE LET init == Dedupe(SubSeq(list, 1, Len(list) - 1))
         IN  IF \E i \in 1 .. Len(init) : init[i] = list[Len(list)]
               THEN init ELSE Append(init, list[Len(list)])

RECURSIVE MergeAttributes(_, _)
\* The merge loop of aggregateAttributes: lines 145-155.
MergeAttributes(all, prompts) ==
    IF Len(prompts) = 0 THEN all
    ELSE LET attrs == extractStyleAttributes(Get(prompts[1], "structured_prompt").s)
         IN  MergeAttributes([k \in DOMAIN all |->
                                 IF k \in DOMAIN attrs THEN all[k] \o attrs[k] ELSE all[k]],
                             Tail(prompts))

\* aggregateAttributes(structuredPrompts)
aggregateAttributes(prompts) ==
    LET types == { priorityOrder[i] : i \in 1 .. Len(priorityOrder) }
        merged == MergeAttributes([k \in types |-> <<>>], prompts)
    IN  [k \in types |-> Dedupe(merged[k])]

RECURSIVE Flatten(_)
\* The concatenation of a sequence of lists.
Flatten(lists) == IF Len(lists) = 0 THEN <<>> ELSE lists[1] \o Flatten(Tail(lists))

RECURSIVE ByFrequency(_, _, _)
\* The distinct values of allValues, most frequent first, and in the order
\* of their first occurrence among equally frequent ones (a stable sort).
ByFrequency(values, allValues, count) ==
    IF count = 0 THEN <<>>
    ELSE SelectSeq(values, LAMBDA v : Len(SelectSeq(allValues, LAMBDA w : w = v)) = count)
         \o ByFrequency(values, allValues, count - 1)

\* getTopAttributes without the sort by frequency.
getTopAttributesMutant(attributes, limit) ==
    LET allValues == Flatten([i \in 1 .. Len(priorityOrder) |-> attributes[priorityOrder[i]]])
        distinct == Dedupe(allValues)
    IN  SubSeq(distinct, 1, Min(limit, Len(distinct)))

\* getTopAttributes(attributes, limit)
getTopAttributes(attributes, limit) ==
    LET allValues == Flatten([i \in 1 .. Len(priorityOrder) |-> attributes[priorityOrder[i]]])
        sorted == ByFrequency(Dedupe(allValues), allValues, Len(allValues))
    IN  SubSeq(sorted, 1, Min(limit, Len(sorted)))

\* capitalizeWords(text)
capitalizeWords(text) ==
    LET words == Split(text, " ")
    IN  JoinText([i \in 1 .. Len(words) |->
                     IF words[i] = "" THEN ""
                     ELSE MapLetter(SubSeq(words[i], 1, 1), lowerCase, upperCase)
                          \o SubSeq(words[i], 2, Len(words[i]))], " ")

RECURSIVE TrimWords(_, _)
\* while (words.length > 2 && words.join(' ').length > maxLength) words.pop()
TrimWords(words, maxLen) ==
    IF Len(words) > 2 /\ Len(JoinText(words, " ")) > maxLen
      THEN TrimWords(SubSeq(words, 1, Len(words) - 1), maxLen)
      ELSE words

\* generateProfileName without the test `topAttributes.length === 0`.
generateProfileNameMutant(prompts, maxLen) ==
    IF Len(prompts) = 0 THEN "Untitled Style"
    ELSE LET name == capitalizeWords(JoinText(getTopAttributes(aggregateAttributes(prompts), 4), " "))
             trimmed == IF Len(name) > maxLen
                          THEN JoinText(TrimWords(Split(name, " "), maxLen), " ")
                          ELSE name
         IN  IF trimmed = "" THEN "Style Profile" ELSE trimmed

\* generateProfileName(structuredPrompts, maxLength)
generateProfileName(prompts, maxLen) ==
    IF Len(prompts) = 0 THEN "Untitled Style"
    ELSE LET topAttributes == getTopAttributes(aggregateAttributes(prompts), 4)
             name == capitalizeWords(JoinText(topAttributes, " "))
             trimmed == IF Len(name) > maxLen
                          THEN JoinText(TrimWords(Split(name, " "), maxLen), " ")
                          ELSE name
         IN  IF Len(topAttributes) = 0 THEN "Custom Style Profile"
             ELSE IF trimmed = "" THEN "Style Profile"
             ELSE trimmed

(***************************************************************************)
(* utils/styleDnaParser.ts: createStyleOnlyStructuredPrompt.               *)
(***************************************************************************)
styleFieldsWhitelist ==
    <<"lighting", "light", "illumination", "color_palette", "colors", "palette", "mood",
      "mood_atmosphere", "atmosphere", "tone", "vibe", "aesthetics",
      "photographic_characteristics", "technical", "camera", "photography", "artistic_style",
      "photographic_style", "rendering_style", "style", "style_medium", "time_of_day", "time",
      "season", "weather", "color_scheme">>

\* Object.entries(v): the entries of an object, the indexed items of an array,
\* the indexed characters of a text, nothing of any other value.
ObjectEntries(v) ==
    CASE v.t = "obj" -> v.o
      [] v.t = "arr" -> [i \in 1 .. Len(v.a) |-> KV(ToString(i - 1), v.a[i])]
      [] v.t = "str" -> [i \in 1 .. Len(v.s) |-> KV(ToString(i - 1), Str(SubSeq(v.s, i, i)))]
      [] OTHER -> <<>>

\* isStyleField with every key accepted.
IsStyleFieldMutant(key) == TRUE

\* isStyleField of a key: lines 505-506.
IsStyleField(key) ==
    LET lowerKey == toLowerCase(key)
    IN  \E i \in 1 .. Len(styleFieldsWhitelist) :
            \/ lowerKey = styleFieldsWhitelist[i]
            \/ Includes(lowerKey, styleFieldsWhitelist[i])

\* cleanAesthetics: lines 511-517.
CleanAesthetics(value) ==
    Obj(SelectSeq(ObjectEntries(value),
                  LAMBDA e : ~Includes(toLowerCase(e.k), "composition")))

RECURSIVE CopyWhitelisted(_, _)
\* The loop over Object.entries(original): lines 504-525.
CopyWhitelisted(styleObj, entries) ==
    IF Len(entries) = 0 THEN styleObj
    ELSE LET key == entries[1].k
             value == entries[1].v
             next ==
                 IF ~(IsStyleField(key) /\ Truthy(value)) THEN styleObj
                 ELSE IF key = "aesthetics" /\ TypeofObject(value)
                   THEN IF Len(CleanAesthetics(value).o) > 0
                          THEN Put(styleObj, key, CleanAesthetics(value))
                          ELSE styleObj
                 ELSE Put(styleObj, key, value)
         IN  CopyWhitelisted(next, Tail(entries))

\* createStyleOnlyStructuredPrompt(styleDNA)
createStyleOnlyStructuredPrompt(dna) ==
    LET original == OrElse(Get(dna, "original"), Obj(<<>>))
        styleObj == CopyWhitelisted(Obj(<<>>), ObjectEntries(original))
    IN  Stringify(IF Len(styleObj.o) = 0
                    THEN CopyFields(styleObj, dna,
                             << <<"lighting", "lighting">>, <<"color_palette", "color_palette">>,
                                <<"colors", "colors">>, <<"mood", "mood">>,
                                <<"atmosphere", "atmosphere">> >>)
                    ELSE styleObj)

(***************************************************************************)
(* api/generateImage.ts: POST /api/generate-image.                         *)
(***************************************************************************)
\* An HTTP response of a handler: res.status(status).json(json)
Reply(status, json) == [status |-> status, json |-> json]

\* An object with the entries whose value is defined (a parsed JSON body).
Fields(entries) == Obj(SelectSeq(entries, LAMBDA e : e.v # Undefined))

\* The two validations of the handler: lines 35-45.
GenerateRejectionMutant(b) ==
    IF ~Truthy(Get(b, "structured_prompt")) \/ ~Truthy(Get(b, "prompt"))
      THEN Reply(400, Obj(<<KV("error", Str("Either structured_prompt or prompt is required"))>>))
    ELSE NoValue

GenerateRejection(b) ==
    IF ~Truthy(Get(b, "structured_prompt")) /\ ~Truthy(Get(b, "prompt"))
      THEN Reply(400, Obj(<<KV("error", Str("Either structured_prompt or prompt is required"))>>))
    ELSE IF Truthy(Get(b, "structured_prompt")) /\ ~IsStr(Get(b, "structured_prompt"))
      THEN Reply(400, Obj(<<KV("error", Str("structured_prompt must be a string"))>>))
    ELSE NoValue

\* use_style_dna_parser && structured_prompt
UsesStyleDNA(b) == Truthy(Get(b, "use_style_dna_parser")) /\ Truthy(Get(b, "structured_prompt"))

\* Local `styleDNA` after lines 49-82.
StyleDNAOf(b) ==
    IF UsesStyleDNA(b) THEN parseStructuredPrompt(Get(b, "structured_prompt").s) ELSE Null

\* styleDNA && Object.keys(styleDNA).length > 1
HasStyleMutant(dna) == Truthy(dna)

HasStyle(dna) == Truthy(dna) /\ Len(ObjKeys(dna)) > 1

\* Local `finalPrompt` after lines 47-82.
FinalPrompt(b) ==
    IF UsesStyleDNA(b) /\ HasStyle(StyleDNAOf(b))
      THEN Str(createStyleTransferPrompt(ToText(OrElse(Get(b, "prompt"), Str(""))), StyleDNAOf(b)))
      ELSE Get(b, "prompt")

\* Local `finalStructuredPrompt` after lines 48-82.
FinalStructuredPromptMutant(b) == Get(b, "structured_prompt")

FinalStructuredPrompt(b) == IF UsesStyleDNA(b) THEN Undefined ELSE Get(b, "structured_prompt")

\* requestPayload: lines 87-100.
RequestPayload(b) ==
    LET payload == Obj(<<KV("prompt", FinalPrompt(b)), KV("seed", Get(b, "seed")),
                         KV("sync", Bool(TRUE))>>)
    IN  IF Truthy(FinalStructuredPrompt(b))
          THEN Put(payload, "structured_prompt", FinalStructuredPrompt(b))
          ELSE payload

\* error.response?.status || 500
StatusCode(error) == OrElse(ResponseStatus(error), Num(500))

\* error.response?.data || {}
ErrorDetails(error) == OrElse(ResponseData(error), Obj(<<>>))

\* The response of the catch block: lines 123-148.
GenerateErrorReply(error) ==
    LET errorMessage == IF error.msg # "" THEN error.msg ELSE "Internal server error"
        errorDetails == ErrorDetails(error)
        formattedError == IF TypeofObject(errorDetails) THEN Pretty(errorDetails, "")
                          ELSE ToText(errorDetails)
        detailedMessage ==
            IF StatusCode(error) = Num(422)
              THEN "Bria validation error: "
                   \o (IF formattedError # "" THEN formattedError ELSE "Invalid request format")
              ELSE errorMessage \o (IF formattedError # "" THEN ": " \o formattedError ELSE "")
    IN  Reply(StatusCode(error).n,
              Obj(<<KV("error", Str(detailedMessage)), KV("details", errorDetails),
                    KV("briaApiError", errorDetails), KV("statusCode", StatusCode(error)),
                    KV("originalMessage", Str(errorMessage))>>))

\* The handler from the arrival of the request to its first suspension, the
\* call of client.generateImage, or to its response when it makes no call:
\* lines 20-104.
GenerateReceive ==
    /\ hpc = "received"
    /\ IF GenerateRejection(body) # NoValue
         THEN /\ res' = GenerateRejection(body)
              /\ hpc' = "responded"
              /\ UNCHANGED <<styleDNA, clientCalls, retryVars, clientVars>>
       ELSE IF ~apiKey
         THEN /\ res' = GenerateErrorReply(Err("BRIA_API_KEY is not configured"))
              /\ hpc' = "responded"
              /\ styleDNA' = StyleDNAOf(body)
              /\ UNCHANGED <<clientCalls, retryVars, clientVars>>
       ELSE /\ ClientCall("generateImage", RequestPayload(body))
            /\ clientCalls' = Append(clientCalls, RequestPayload(body))
            /\ styleDNA' = StyleDNAOf(body)
            /\ hpc' = "calling"
            /\ res' = res
    /\ UNCHANGED <<tabVars, apiKey, body, files, idx, structuredPrompts, errors, maxLength, profileName,
                   callResults>>

\* The handler after client.generateImage settled: lines 104-115, or the
\* catch block when it threw.
GenerateRespond ==
    /\ hpc = "calling" /\ cop = "generateImage" /\ rstate \in {"returned", "thrown"}
    /\ res' = IF rstate = "returned"
                THEN Reply(200, Put(rvalue.val, "style_dna", styleDNA))
                ELSE GenerateErrorReply(rvalue)
    /\ hpc' = "responded"
    /\ callResults' = Append(callResults, rstate)
    /\ UNCHANGED <<tabVars, apiKey, body, files, styleDNA, idx, structuredPrompts, errors, maxLength,
                   profileName, clientCalls>>
    /\ UNCHANGED <<retryVars, clientVars>>

(***************************************************************************)
(* Specification of the generation endpoint: one request, handled against  *)
(* a client that keeps ClientContract.                                     *)
(***************************************************************************)
\* The texts a structured_prompt may hold: JSON documents and other text.
JsonTexts == { Stringify(d) : d \in StyleDocuments } \cup { "not json" }

Subject == Str("a red bicycle")

GenerateBodies ==
    { Fields(<<KV("structured_prompt", Str(t)), KV("prompt", Subject),
               KV("use_style_dna_parser", Bool(TRUE))>>) : t \in JsonTexts }
    \cup { Fields(<<KV("structured_prompt", Str(t)), KV("prompt", p),
                    KV("use_style_dna_parser", Bool(TRUE))>>) :
               t \in { Stringify(PromptWarm), "not json" }, p \in { Undefined, Str("") } }
    \cup { Fields(<<KV("structured_prompt", sp), KV("prompt", p), KV("seed", Num(42)),
                    KV("use_style_dna_parser", flag)>>) :
               sp \in { Undefined, Str(""), Str(Stringify(PromptWarm)) },
               p \in { Undefined, Str(""), Subject },
               flag \in { Undefined, Bool(FALSE), Bool(TRUE) } }
    \cup { Fields(<<KV("structured_prompt", sp), KV("prompt", Subject),
                    KV("use_style_dna_parser", Bool(TRUE))>>) :
               sp \in { Num(5), PromptWarm } }

GenerateInit ==
    /\ apiKey \in BOOLEAN
    /\ hpc = "received"
    /\ body \in GenerateBodies
    /\ files = <<>>
    /\ styleDNA = NoValue
    /\ idx = 0
    /\ structuredPrompts = <<>>
    /\ errors = <<>>
    /\ maxLength = defaultMaxLength
    /\ profileName = NoValue
    /\ res = NoValue
    /\ clientCalls = <<>>
    /\ callResults = <<>>
    /\ ClientIdle
    /\ TabIdle
    /\ opts = defaultOptions
    /\ delay = defaultOptions.initialDelay
    /\ attempt = 0
    /\ lastError = NoValue
    /\ rstate = "idle"
    /\ rvalue = NoValue
    /\ calls = 0
    /\ failures = 0
    /\ lastOutcome = NoValue
    /\ slept = <<>>

GenerateNext ==
    \/ GenerateReceive
    \/ ClientCompletes
    \/ GenerateRespond

SpecGenerate == GenerateInit /\ [][GenerateNext]_vars

(***************************************************************************)
(* api/styleExtract.ts: POST /api/style-extract.                           *)
(***************************************************************************)
\* multer's limits.fileSize (the default of MAX_FILE_SIZE) and limits.files.
MaxFileSize == 10485760
FilesLimit == 20

\* maxCount of upload.array('images', 5)
MaxCount == 5

\* An uploaded file of the field `images`.
File(originalname, mimetype, buffer) ==
    [originalname |-> originalname, mimetype |-> mimetype, buffer |-> buffer]

\* fileFilter accepts the file: lines 15-46.
FileAccepted(file) ==
    \/ file.mimetype \in { "image/jpeg", "image/jpg", "image/png", "image/webp", "image/x-png",
                           "image/pjpeg" }
    \/ Last(Split(toLowerCase(file.originalname), ".")) \in { "jpg", "jpeg", "png", "webp" }

\* A MulterError, or the error of fileFilter.
UploadError(code, msg) == [kind |-> "error", msg |-> msg, code |-> code]

\* The error multer raises at the k-th file of the field, if any: busboy's
\* files limit, the field's maxCount, the file filter, then the size limit.
FileError(file, k) ==
    IF k > FilesLimit THEN UploadError("LIMIT_FILE_COUNT", "Too many files")
    ELSE IF k > MaxCount THEN UploadError("LIMIT_UNEXPECTED_FILE", "Unexpected field")
    ELSE IF ~FileAccepted(file)
      THEN UploadError("", "Invalid file type: "
                           \o (IF file.mimetype # "" THEN file.mimetype ELSE "unknown")
                           \o ". Only JPEG, PNG, and WebP are allowed.")
    ELSE IF file.buffer.len > MaxFileSize THEN UploadError("LIMIT_FILE_SIZE", "File too large")
    ELSE NoValue

\* upload.array('images', 5): the error of the first file that has one.
UploadErrorOf(sent) ==
    IF \E k \in 1 .. Len(sent) : FileError(sent[k], k) # NoValue
      THEN LET k == CHOOSE k \in 1 .. Len(sent) :
                        /\ FileError(sent[k], k) # NoValue
                        /\ \A j \in 1 .. k - 1 : FileError(sent[j], j) = NoValue
           IN  FileError(sent[k], k)
      ELSE NoValue

\* handleMulterError(err, req, res, next) for an error: lines 71-86.
handleMulterError(err) ==
    Reply(400, Obj(<<KV("error", Str(
        IF err.code = "LIMIT_FILE_SIZE" THEN "File size too large. Maximum 10MB per file."
        ELSE IF err.code = "LIMIT_FILE_COUNT" THEN "Too many files. Maximum 5 files allowed."
        ELSE IF err.msg # "" THEN err.msg
        ELSE "File upload error"))>>))

\* The message of the first file whose buffer fails the validation loop.
BufferError(file, i) ==
    IF IsEmptyBuffer(file.buffer)
      THEN "File " \o ToString(i) \o " (" \o file.originalname \o ") has no data or is corrupted"
    ELSE IF file.buffer.len > 10 * 1024 * 1024
      THEN "File " \o ToString(i) \o " (" \o file.originalname \o ") exceeds 10MB limit"
    ELSE ""

\* The validations of the handler with a loop that looks at the first file
\* alone.
ExtractRejectionMutant(fs) ==
    IF Len(fs) = 0 THEN Reply(400, Obj(<<KV("error", Str("No images provided"))>>))
    ELSE IF Len(fs) > 20
      THEN Reply(400, Obj(<<KV("error", Str("Maximum 20 images allowed, received "
                                            \o ToString(Len(fs))))>>))
    ELSE IF BufferError(fs[1], 1) # ""
      THEN Reply(400, Obj(<<KV("error", Str(BufferError(fs[1], 1)))>>))
    ELSE NoValue

\* The validations of the handler: lines 104-130.
ExtractRejection(fs) ==
    IF Len(fs) = 0 THEN Reply(400, Obj(<<KV("error", Str("No images provided"))>>))
    ELSE IF Len(fs) > 20
      THEN Reply(400, Obj(<<KV("error", Str("Maximum 20 images allowed, received "
                                            \o ToString(Len(fs))))>>))
    ELSE IF \E i \in 1 .. Len(fs) : BufferError(fs[i], i) # ""
      THEN LET i == CHOOSE i \in 1 .. Len(fs) :
                        /\ BufferError(fs[i], i) # ""
                        /\ \A j \in 1 .. i - 1 : BufferError(fs[j], j) = ""
           IN  Reply(400, Obj(<<KV("error", Str(BufferError(fs[i], i)))>>))
    ELSE NoValue

\* The response of the outer catch block: lines 207-225.
ExtractErrorReply(error) ==
    Reply(StatusCode(error).n,
          Obj(<<KV("error", Str(IF error.msg # "" THEN error.msg ELSE "Internal server error")),
                KV("details", ErrorDetails(error)), KV("briaApiError", ErrorDetails(error))>>))

\* structuredPrompts.push({ ...result, imageIndex: i })
ImageEntry(result, i) == Put(result, "imageIndex", Num(i))

\* errors.push({ imageIndex: i, error: error.message })
ErrorEntryMutant(error, i) == Obj(<<KV("imageIndex", Num(i + 1)), KV("error", Str(error.msg))>>)

ErrorEntry(error, i) == Obj(<<KV("imageIndex", Num(i)), KV("error", Str(error.msg))>>)

RECURSIVE Trim(_)
\* text.trim(), of a text whose only white space is the space character
Trim(text) ==
    IF text = "" THEN ""
    ELSE IF SubSeq(text, 1, 1) = " " THEN Trim(SubSeq(text, 2, Len(text)))
    ELSE IF SubSeq(text, Len(text), Len(text)) = " " THEN Trim(SubSeq(text, 1, Len(text) - 1))
    ELSE text

\* new Date().toISOString()
Now == "2025-11-05T10:00:00.000Z"

\* The naming without the trimming of profile_name.
ProfileNameOfMutant(b, prompts) ==
    IF Truthy(Get(b, "profile_name")) THEN Get(b, "profile_name").s
    ELSE IF Len(prompts) > 0 THEN generateProfileName(prompts, defaultMaxLength)
    ELSE "Style Profile - " \o Now

\* Local `profileName`: lines 178-197.
ProfileNameOf(b, prompts) ==
    IF Truthy(Get(b, "profile_name")) /\ Trim(Get(b, "profile_name").s) # ""
      THEN Trim(Get(b, "profile_name").s)
    ELSE IF Len(prompts) > 0 THEN generateProfileName(prompts, defaultMaxLength)
    ELSE "Style Profile - " \o Now

\* The StyleProfile with the number of successful images as processedImages.
StyleProfileMutant(name, prompts, errs, processed) ==
    Obj(<<KV("name", Str(name)), KV("createdAt", Str(Now)), KV("images", Arr(prompts)),
          KV("processedImages", Num(Len(prompts))),
          KV("errors", IF Len(errs) > 0 THEN Arr(errs) ELSE Undefined)>>)

\* The StyleProfile of the response: lines 200-206.
StyleProfile(name, prompts, errs, processed) ==
    Obj(<<KV("name", Str(name)), KV("createdAt", Str(Now)), KV("images", Arr(prompts)),
          KV("processedImages", Num(processed)),
          KV("errors", IF Len(errs) > 0 THEN Arr(errs) ELSE Undefined)>>)

\* The loop that stops at the first image that failed.
MoreImagesMutant(i, fs, settled) == settled = "returned" /\ i + 1 < Len(fs)

\* The loop test after the body ran for image i, however its call settled:
\* i++ , i < imageBuffers.length (line 144).
MoreImages(i, fs, settled) == i + 1 < Len(fs)

\* client.extractStyle([imageBuffers[i]])
ExtractCall(i) ==
    /\ ClientCall("extractStyle", <<files[i + 1].buffer>>)
    /\ clientCalls' = Append(clientCalls, <<files[i + 1].buffer>>)
    /\ idx' = i
    /\ hpc' = "calling"

\* multer, handleMulterError and the handler from the arrival of the request
\* to its first suspension, the call of client.extractStyle for image 0, or
\* to its response when it makes no call: lines 89-147.
ExtractReceive ==
    /\ hpc = "received"
    /\ IF UploadErrorOf(files) # NoValue
         THEN /\ res' = handleMulterError(UploadErrorOf(files))
              /\ hpc' = "responded"
              /\ UNCHANGED <<idx, clientCalls, retryVars, clientVars>>
       ELSE IF ExtractRejection(files) # NoValue
         THEN /\ res' = ExtractRejection(files)
              /\ hpc' = "responded"
              /\ UNCHANGED <<idx, clientCalls, retryVars, clientVars>>
       ELSE IF ~apiKey
         THEN /\ res' = ExtractErrorReply(Err("BRIA_API_KEY is not configured"))
              /\ hpc' = "responded"
              /\ UNCHANGED <<idx, clientCalls, retryVars, clientVars>>
       ELSE ExtractCall(0) /\ res' = res
    /\ UNCHANGED <<tabVars, apiKey, body, files, styleDNA, structuredPrompts, errors, maxLength,
                   profileName, callResults>>

\* The handler after client.extractStyle settled for image `idx`: the end
\* of the loop body, then the next call or, after the last image, the
\* naming and the response: lines 147-206.
ExtractResume ==
    /\ hpc = "calling" /\ cop = "extractStyle" /\ rstate \in {"returned", "thrown"}
    /\ callResults' = Append(callResults, rstate)
    /\ structuredPrompts' = IF rstate = "returned"
                              THEN Append(structuredPrompts, ImageEntry(rvalue.val, idx))
                              ELSE structuredPrompts
    /\ errors' = IF rstate = "thrown" THEN Append(errors, ErrorEntry(rvalue, idx)) ELSE errors
    /\ IF MoreImages(idx, files, rstate)
         THEN /\ ExtractCall(idx + 1)
              /\ UNCHANGED <<profileName, res>>
         ELSE /\ profileName' = Str(ProfileNameOf(body, structuredPrompts'))
              /\ res' = Reply(200, StyleProfile(profileName'.s, structuredPrompts', errors',
                                                Len(files)))
              /\ hpc' = "responded"
              /\ UNCHANGED <<idx, clientCalls, retryVars, clientVars>>
    /\ UNCHANGED <<tabVars, apiKey, body, files, styleDNA, maxLength>>

(***************************************************************************)
(* Specification of the extraction endpoint: one request, handled against  *)
(* a client that keeps ClientContract.                                     *)
(***************************************************************************)
MaxFiles == 21

ValidFile == File("a.png", "image/png", Buffer(3, "AQID"))

SampleFiles ==
    { ValidFile,
      File("b.JPG", "application/octet-stream", Buffer(3, "AQID")),
      File("empty.png", "image/png", Buffer(0, "")),
      File("notes.txt", "text/plain", Buffer(3, "AQID")),
      File("big.webp", "image/webp", Buffer(MaxFileSize + 1, "AQID")) }

\* The requests: any number of valid files, or a few files of any kind with
\* or without a profile name.
ExtractRequests ==
    { [files |-> [i \in 1 .. n |-> ValidFile], body |-> Obj(<<>>)] : n \in 0 .. MaxFiles }
    \cup { [files |-> fs, body |-> Fields(<<KV("profile_name", name)>>)] :
               fs \in UNION { [1 .. n -> SampleFiles] : n \in 1 .. 2 },
               name \in { Undefined, Str("   "), Str(" Studio Look ") } }

ExtractInit ==
    /\ \E request \in ExtractRequests : files = request.files /\ body = request.body
    /\ apiKey \in BOOLEAN
    /\ hpc = "received"
    /\ styleDNA = NoValue
    /\ idx = 0
    /\ structuredPrompts = <<>>
    /\ errors = <<>>
    /\ maxLength = defaultMaxLength
    /\ profileName = NoValue
    /\ res = NoValue
    /\ clientCalls = <<>>
    /\ callResults = <<>>
    /\ ClientIdle
    /\ TabIdle
    /\ opts = defaultOptions
    /\ delay = defaultOptions.initialDelay
    /\ attempt = 0
    /\ lastError = NoValue
    /\ rstate = "idle"
    /\ rvalue = NoValue
    /\ calls = 0
    /\ failures = 0
    /\ lastOutcome = NoValue
    /\ slept = <<>>

ExtractNext ==
    \/ ExtractReceive
    \/ ClientCompletes
    \/ ExtractResume

SpecExtract == ExtractInit /\ [][ExtractNext]_vars

(***************************************************************************)
(* Specification of the client alone: one call of extractStyle or of       *)
(* generateImage against an arbitrary remote service.                      *)
(***************************************************************************)
SampleBuffers == { Buffer(3, "AQID"), Buffer(0, "") }

ExtractStyleArguments ==
    { <<b>> : b \in SampleBuffers } \cup { <<>>, <<Buffer(3, "AQID"), Buffer(2, "AQI=")>> }

\* Every request the generation handler hands to the client, and one request
\* of another caller.
GenerateImageArguments ==
    { RequestPayload(b) : b \in { x \in GenerateBodies : GenerateRejection(x) = NoValue } }
    \cup { Obj(<<KV("structured_prompt", Str(Stringify(PromptWarm))), KV("sync", Bool(FALSE))>>) }

\* The state right after the call, as ClientCall leaves it.
ClientCalled(op, request) ==
    /\ cop = op
    /\ creq = request
    /\ cpc = "post"
    /\ pollI = 0
    /\ requestId = Undefined
    /\ posted = NoValue
    /\ posts = 0
    /\ pollReqs = 0
    /\ lastReply = NoValue
    /\ sawTerminal = FALSE
    /\ pollOutcome = NoValue
    /\ pollWaited = 0
    /\ opts = defaultOptions
    /\ delay = defaultOptions.initialDelay
    /\ attempt = 0
    /\ lastError = NoValue
    /\ rstate = "call"
    /\ rvalue = NoValue
    /\ calls = 0
    /\ failures = 0
    /\ lastOutcome = NoValue
    /\ slept = <<>>

ClientInit ==
    /\ HandlerIdle
    /\ TabIdle
    /\ \/ \E images \in ExtractStyleArguments : ClientCalled("extractStyle", images)
       \/ \E request \in GenerateImageArguments : ClientCalled("generateImage", request)

ClientNext ==
    \/ ExtractStylePost
    \/ PollStyleStep
    \/ GenerateImagePost
    \/ PollImageStep
    \/ ClientBackoff

SpecClient == ClientInit /\ [][ClientNext]_vars

(***************************************************************************)
(* Specification of the three polling operations of the client: one call   *)
(* of extractStyle, of generateImage or of preview.                        *)
(***************************************************************************)
PreviewRequests ==
    { Obj(<<KV("preset", Obj(<<KV("prompt", Str("studio portrait")),
                               KV("render", Obj(<<KV("steps", Num(20))>>))>>))>>),
      Obj(<<KV("preset", Obj(<<KV("prompt", Str("studio portrait")),
                               KV("negativePrompt", Str("blur"))>>)),
            KV("prompt", Subject)>>) }

PollingInit ==
    /\ HandlerIdle
    /\ TabIdle
    /\ \/ ClientCalled("extractStyle", <<Buffer(3, "AQID")>>)
       \/ ClientCalled("generateImage",
                       Obj(<<KV("prompt", Subject), KV("sync", Bool(FALSE))>>))
       \/ \E request \in PreviewRequests : ClientCalled("preview", request)

PollingNext ==
    \/ ExtractStylePost
    \/ PollStyleStep
    \/ GenerateImagePost
    \/ PollImageStep
    \/ PreviewPost
    \/ PollPreviewStep
    \/ ClientBackoff

SpecPolling == PollingInit /\ [][PollingNext]_vars

(***************************************************************************)
(* Specification of retryWithBackoff alone, over an arbitrary operation.   *)
(***************************************************************************)
MaxRetriesBound == 3

\* The values an operation may resolve with and the values it may throw:
\* two Error objects and one thrown string.
FnValues == {"v1", "v2"}
FnErrors == {Err("E1"), Err("E2"), Str("thrown text")}

RetryOptionSets ==
    {[x \in {} |-> 0]}
    \cup [maxRetries : -1 .. MaxRetriesBound]
    \cup [maxRetries : 0 .. MaxRetriesBound, initialDelay : {500, 4000, 20000}]
    \cup [maxRetries : 0 .. MaxRetriesBound, backoffMultiplier : {1, 3}, maxDelay : {2500}]

RetryInit ==
    \E options \in RetryOptionSets :
        /\ opts = MergeOptions(options)
        /\ delay = MergeOptions(options).initialDelay
        /\ attempt = 0
        /\ lastError = NoValue
        /\ rstate = "call"
        /\ rvalue = NoValue
        /\ calls = 0
        /\ failures = 0
        /\ lastOutcome = NoValue
        /\ slept = <<>>
        /\ ClientIdle
        /\ TabIdle
        /\ HandlerIdle

FnResolves ==
    /\ cop = "none" /\ RetryMayCall
    /\ \E v \in FnValues : RetryFnReturned(Str(v))
    /\ UNCHANGED <<clientVars, handlerVars, tabVars>>

FnRejects ==
    /\ cop = "none" /\ RetryMayCall
    /\ \E e \in FnErrors : RetryFnThrew(e)
    /\ UNCHANGED <<clientVars, handlerVars, tabVars>>

RetryBackoff == RetrySleep /\ UNCHANGED <<clientVars, handlerVars, tabVars>>

RetryGiveUp == RetryLoopExit /\ UNCHANGED <<clientVars, handlerVars, tabVars>>

RetryNext == FnResolves \/ FnRejects \/ RetryBackoff \/ RetryGiveUp

SpecRetry == RetryInit /\ [][RetryNext]_vars

(***************************************************************************)
(* Specification of the profile namer alone: one call of                   *)
(* generateProfileName, with or without the argument maxLength.            *)
(***************************************************************************)
MaxPrompts == 2

\* The structured prompts of the records handed to the namer.
NamerTexts ==
    { Stringify(d) : d \in NamerDocuments \cup { PromptWarm, PromptScene } }
    \cup { Stringify(Obj(<<KV("mood", Obj(<<KV("primary", Str("calm"))>>))>>)), "not json",
           Stringify(Obj(<<>>)) }

NamerInputs ==
    UNION { [1 .. n -> { Obj(<<KV("structured_prompt", Str(t))>>) : t \in NamerTexts }] :
                n \in 0 .. MaxPrompts }

\* The values of maxLength; the default stands for a call without it.
MaxLengths == { 4, 12, 19, 20, 39, defaultMaxLength }

NameInit ==
    /\ structuredPrompts \in NamerInputs
    /\ maxLength \in MaxLengths
    /\ profileName = NoValue
    /\ apiKey = TRUE
    /\ hpc = "idle"
    /\ body = NoValue
    /\ files = <<>>
    /\ styleDNA = NoValue
    /\ idx = 0
    /\ errors = <<>>
    /\ res = NoValue
    /\ clientCalls = <<>>
    /\ callResults = <<>>
    /\ ClientIdle
    /\ TabIdle
    /\ opts = defaultOptions
    /\ delay = defaultOptions.initialDelay
    /\ attempt = 0
    /\ lastError = NoValue
    /\ rstate = "idle"
    /\ rvalue = NoValue
    /\ calls = 0
    /\ failures = 0
    /\ lastOutcome = NoValue
    /\ slept = <<>>

NameGenerated ==
    /\ hpc = "idle" /\ profileName = NoValue
    /\ profileName' = Str(generateProfileName(structuredPrompts, maxLength))
    /\ UNCHANGED <<tabVars, apiKey, hpc, body, files, styleDNA, idx, structuredPrompts, errors, maxLength,
                   res, clientCalls, callResults>>
    /\ UNCHANGED <<retryVars, clientVars>>

NameNext == NameGenerated

SpecName == NameInit /\ [][NameNext]_vars

(***************************************************************************)
(* Specification of the style functions alone: a structured prompt text is *)
(* handed to extractStyleAttributes or to parseStructuredPrompt, and a     *)
(* StyleDNA, parsed or built by a caller, to styleDNAToPrompt or to        *)
(* createStyleOnlyStructuredPrompt.  `body` holds the text, `styleDNA` the *)
(* StyleDNA and `res` the value returned last.                             *)
(***************************************************************************)
\* The texts: every JSON document of the model, and texts that are not JSON.
StyleTexts == { d.text : d \in JsonDocuments } \cup { "", "not json", "warm and serene" }

\* StyleDNA values built by a caller rather than by parseStructuredPrompt.
SampleDNAs ==
    { Obj(<<>>),
      Obj(<<KV("lighting", Str("soft"))>>),
      Obj(<<KV("original", PromptScene)>>),
      Obj(<<KV("original", PromptScene), KV("lighting", Str("warm")), KV("mood", Str("calm")),
            KV("tone", Str("muted")), KV("weather", Str("fog"))>>),
      Obj(<<KV("original", Obj(<<KV("objects", Arr(<<Str("car")>>)),
                                 KV("composition", Obj(<<KV("rule", Str("thirds"))>>))>>)),
            KV("atmosphere", Str("hazy")), KV("colors", Arr(<<Str("teal")>>)),
            KV("color_palette", Str("cool")), KV("season", Str("winter"))>>),
      Obj(<<KV("original", Obj(<<KV("mood", Str(""))>>)), KV("atmosphere", Str("hazy"))>>),
      Obj(<<KV("original", Str("not json")), KV("mood", Str("calm"))>>),
      Obj(<<KV("weather", Str("fog")), KV("time_of_day", Str("dusk")),
            KV("photographic_style", Str("film")), KV("technical", Obj(<<KV("iso", Str("100"))>>)),
            KV("mood", Str("calm")), KV("lighting", Obj(<<KV("direction", Str("left"))>>))>>) }

StyleInit ==
    /\ \/ hpc = "text" /\ body \in { Str(t) : t \in StyleTexts } /\ styleDNA = NoValue
       \/ hpc = "dna" /\ body = NoValue /\ styleDNA \in SampleDNAs
    /\ apiKey = TRUE
    /\ files = <<>>
    /\ idx = 0
    /\ structuredPrompts = <<>>
    /\ errors = <<>>
    /\ maxLength = defaultMaxLength
    /\ profileName = NoValue
    /\ res = NoValue
    /\ clientCalls = <<>>
    /\ callResults = <<>>
    /\ ClientIdle
    /\ TabIdle
    /\ opts = defaultOptions
    /\ delay = defaultOptions.initialDelay
    /\ attempt = 0
    /\ lastError = NoValue
    /\ rstate = "idle"
    /\ rvalue = NoValue
    /\ calls = 0
    /\ failures = 0
    /\ lastOutcome = NoValue
    /\ slept = <<>>

\* extractStyleAttributes(text) returns.
AttributesExtracted ==
    /\ hpc = "text"
    /\ res' = extractStyleAttributes(body.s)
    /\ hpc' = "extracted"
    /\ UNCHANGED <<tabVars, apiKey, body, files, styleDNA, idx, structuredPrompts, errors, maxLength,
                   profileName, clientCalls, callResults>>
    /\ UNCHANGED <<retryVars, clientVars>>

\* parseStructuredPrompt(text) returns.
PromptParsed ==
    /\ hpc = "text"
    /\ styleDNA' = parseStructuredPrompt(body.s)
    /\ hpc' = "parsed"
    /\ UNCHANGED <<tabVars, apiKey, body, files, idx, structuredPrompts, errors, maxLength, profileName,
                   res, clientCalls, callResults>>
    /\ UNCHANGED <<retryVars, clientVars>>

\* styleDNAToPrompt(styleDNA) returns.
PromptRendered ==
    /\ hpc \in {"parsed", "dna"}
    /\ res' = Str(styleDNAToPrompt(styleDNA))
    /\ hpc' = "rendered"
    /\ UNCHANGED <<tabVars, apiKey, body, files, styleDNA, idx, structuredPrompts, errors, maxLength,
                   profileName, clientCalls, callResults>>
    /\ UNCHANGED <<retryVars, clientVars>>

\* createStyleOnlyStructuredPrompt(styleDNA) returns.
StyleOnlyCreated ==
    /\ hpc \in {"parsed", "dna"}
    /\ res' = Str(createStyleOnlyStructuredPrompt(styleDNA))
    /\ hpc' = "filtered"
    /\ UNCHANGED <<tabVars, apiKey, body, files, styleDNA, idx, structuredPrompts, errors, maxLength,
                   profileName, clientCalls, callResults>>
    /\ UNCHANGED <<retryVars, clientVars>>

StyleNext ==
    \/ AttributesExtracted
    \/ PromptParsed
    \/ PromptRendered
    \/ StyleOnlyCreated

SpecStyle == StyleInit /\ [][StyleNext]_vars

(***************************************************************************)
(* components/StyleExtractorTab.tsx: the style extractor tab.  An event    *)
(* handler runs to its end; React then renders and, when images.length     *)
(* differs from its value at the previous render, runs the effect of lines *)
(* 75-79 before it handles the next event.                                 *)
(***************************************************************************)
MaxImages == 20

\* f.name.replace(/\.[^/.]+$/, ''): the name without its last extension.
StripExtension(name) ==
    LET parts == Split(name, ".")
    IN  IF Len(parts) >= 2 /\ Last(parts) # "" /\ ~Includes(Last(parts), "/")
          THEN JoinText(SubSeq(parts, 1, Len(parts) - 1), ".")
          ELSE name

\* The StyleProfile the backend answers for the files of a request; `source`
\* records the files it was extracted from.
ExtractedProfile(imageFiles) == [processedImages |-> Len(imageFiles), source |-> imageFiles]

\* React has run the effect for the images of the latest render.
EffectsFlushed == depLength = Len(tabImages)

\* handleFileSelect(e) for e.target.files = chosen: lines 17-31.
HandleFileSelect(chosen) ==
    /\ EffectsFlushed
    /\ IF Len(chosen) < 1
         THEN /\ tabError' = Str("Please select at least 1 image")
              /\ UNCHANGED <<tabImages, imageNames>>
       ELSE IF Len(chosen) > MaxImages
         THEN /\ tabError' = Str("Maximum 20 images allowed")
              /\ UNCHANGED <<tabImages, imageNames>>
       ELSE /\ tabImages' = chosen
            /\ imageNames' = [i \in 1 .. Len(chosen) |-> StripExtension(chosen[i])]
            /\ tabError' = Null
    /\ UNCHANGED <<styleProfile, loading, extractingRef, pending, depLength>>
    /\ UNCHANGED <<retryVars, clientVars, handlerVars>>

\* list.filter((_, i) => i !== index), index counted from 0
WithoutIndex(list, index) ==
    SubSeq(list, 1, index) \o SubSeq(list, index + 2, Len(list))

\* removeImage(index): lines 33-37.
RemoveImage(index) ==
    /\ EffectsFlushed
    /\ index \in 0 .. Len(tabImages) - 1
    /\ tabImages' = WithoutIndex(tabImages, index)
    /\ imageNames' = WithoutIndex(imageNames, index)
    /\ styleProfile' = Null
    /\ UNCHANGED <<loading, tabError, extractingRef, pending, depLength>>
    /\ UNCHANGED <<retryVars, clientVars, handlerVars>>

\* extractStyle without the assignment of line 42.
ExtractStyleStartMutant(imageFiles) ==
    IF extractingRef
      THEN UNCHANGED <<extractingRef, loading, tabError, pending>>
      ELSE /\ extractingRef' = extractingRef
           /\ loading' = TRUE
           /\ tabError' = Null
           /\ pending' = Append(pending, imageFiles)

\* extractStyle(imageFiles) up to its suspension at the call of
\* styleExtractApi.extract: lines 39-47.
ExtractStyleStart(imageFiles) ==
    IF extractingRef
      THEN UNCHANGED <<extractingRef, loading, tabError, pending>>
      ELSE /\ extractingRef' = TRUE
           /\ loading' = TRUE
           /\ tabError' = Null
           /\ pending' = Append(pending, imageFiles)

\* The effect with the dependency [images.length]: lines 75-79.
ImagesEffect ==
    /\ ~EffectsFlushed
    /\ depLength' = Len(tabImages)
    /\ IF Len(tabImages) >= 1 /\ ~loading /\ ~extractingRef
         THEN ExtractStyleStart(tabImages)
         ELSE UNCHANGED <<extractingRef, loading, tabError, pending>>
    /\ UNCHANGED <<tabImages, imageNames, styleProfile>>
    /\ UNCHANGED <<retryVars, clientVars, handlerVars>>

\* extractStyle resumes when the call of styleExtractApi.extract settles:
\* lines 47-71.
ExtractSettled ==
    /\ EffectsFlushed
    /\ pending # <<>>
    /\ \E k \in 1 .. Len(pending) :
         /\ pending' = WithoutIndex(pending, k - 1)
         /\ \/ /\ styleProfile' = ExtractedProfile(pending[k])
               /\ UNCHANGED tabError
            \/ /\ tabError' = Str("Failed to extract style")
               /\ styleProfile' = Null
    /\ loading' = FALSE
    /\ extractingRef' = FALSE
    /\ UNCHANGED <<tabImages, imageNames, depLength>>
    /\ UNCHANGED <<retryVars, clientVars, handlerVars>>

(***************************************************************************)
(* Specification of the style extractor tab: the user selects files and    *)
(* removes images while requests settle.                                   *)
(***************************************************************************)
MaxSelected == 2

SampleImages == { "a.png", "b.v2.jpg", "c" }

\* What a file dialog may deliver: no file, up to MaxSelected files, or 21.
Selections ==
    UNION { [1 .. n -> SampleImages] : n \in 0 .. MaxSelected }
    \cup { [i \in 1 .. MaxImages + 1 |-> "a.png"] }

TabInit ==
    /\ TabIdle
    /\ ClientIdle
    /\ HandlerIdle
    /\ opts = defaultOptions
    /\ delay = defaultOptions.initialDelay
    /\ attempt = 0
    /\ lastError = NoValue
    /\ rstate = "idle"
    /\ rvalue = NoValue
    /\ calls = 0
    /\ failures = 0
    /\ lastOutcome = NoValue
    /\ slept = <<>>

FileSelected == \E chosen \in Selections : HandleFileSelect(chosen)

ImageRemoved == \E index \in 0 .. MaxSelected : RemoveImage(index)

TabNext ==
    \/ FileSelected
    \/ ImageRemoved
    \/ ImagesEffect
    \/ ExtractSettled

SpecTab == TabInit /\ [][TabNext]_vars

(***************************************************************************)
(* Claims about retryWithBackoff (checked under SpecRetry).                *)
(***************************************************************************)
\* C1: for maxRetries >= 0, the operation is never invoked more than
\* maxRetries + 1 times; when its first maxRetries invocations failed and the
\* next one succeeded, the call has returned that success value; when
\* maxRetries + 1 invocations failed in a row, the call has raised the error of
\* the last invocation.
C1_RetryCountAndOutcome ==
    opts.maxRetries >= 0 =>
        /\ calls <= opts.maxRetries + 1
        /\ (calls = opts.maxRetries + 1 /\ failures = opts.maxRetries)
              => (rstate = "returned" /\ lastOutcome.kind = "ok" /\ rvalue = lastOutcome)
        /\ (calls = opts.maxRetries + 1 /\ failures = opts.maxRetries + 1)
              => (rstate = "thrown" /\ rvalue = ToError(lastOutcome.err))

\* C1 witness: three failures, then a success on the fourth invocation.
C1_Witness ==
    /\ opts.maxRetries = 3
    /\ calls = 4
    /\ failures = 3
    /\ rstate = "returned"

(***************************************************************************)
(* Claims about the extraction endpoint (checked under SpecExtract).       *)
(***************************************************************************)
\* The entries of a list field of the response (none when it is undefined).
EntriesOf(v) == IF v = Undefined THEN <<>> ELSE v.a

\* How many entries of the list carry imageIndex i.
IndexCount(list, i) ==
    Cardinality({ k \in 1 .. Len(list) : Get(list[k], "imageIndex") = Num(i) })

\* C2: the profile returned for n validated images has processedImages = n,
\* and every index of 0..n-1 appears exactly once: in `images` if the call
\* for that image succeeded, in `errors` if it failed.
C2_IndexPartition ==
    (hpc = "responded" /\ res.status = 200) =>
        LET n == Len(files)
            images == EntriesOf(Get(res.json, "images"))
            errs == EntriesOf(Get(res.json, "errors"))
        IN  /\ Get(res.json, "processedImages") = Num(n)
            /\ Len(callResults) = n
            /\ Len(images) = n - Len(errs)
            /\ \A i \in 0 .. n - 1 :
                 IF callResults[i + 1] = "returned"
                   THEN IndexCount(images, i) = 1 /\ IndexCount(errs, i) = 0
                   ELSE IndexCount(images, i) = 0 /\ IndexCount(errs, i) = 1

\* Three valid images, the second of which failed.
C2_Witness ==
    /\ hpc = "responded" /\ res.status = 200
    /\ Len(files) = 3
    /\ callResults = <<"returned", "thrown", "returned">>
    /\ Len(Get(res.json, "images").a) = 2
    /\ Len(Get(res.json, "errors").a) = 1
    /\ Get(Get(res.json, "errors").a[1], "imageIndex") = Num(1)

\* Every file of the request is a valid image.
AllFilesValid == \A k \in 1 .. Len(files) : files[k] = ValidFile

\* C3: a request with n valid image files is accepted exactly when
\* 1 <= n <= 20: every such n reaches the per-image processing loop, and
\* n = 0 or n > 20 is answered 400.
C3_AcceptsOneToTwenty ==
    (hpc # "received" /\ apiKey /\ AllFilesValid) =>
        IF Len(files) \in 1 .. 20
          THEN Len(clientCalls) >= 1
          ELSE res.status = 400 /\ clientCalls = <<>>

(***************************************************************************)
(* Claims about the generation endpoint (checked under SpecGenerate).      *)
(***************************************************************************)
\* The request carries the DNA-parsing flag and a non-empty structured_prompt.
DnaRequested ==
    /\ ObjHas(body, "use_style_dna_parser") /\ Get(body, "use_style_dna_parser") = Bool(TRUE)
    /\ ObjHas(body, "structured_prompt") /\ Get(body, "structured_prompt") # Str("")

\* C4: when the generation endpoint receives use_style_dna_parser set and a
\* non-empty structured_prompt, no request it passes to the client and no
\* payload the client posts has a structured_prompt field, whatever the
\* structured_prompt holds.
C4_StructuredPromptOmitted ==
    DnaRequested =>
        /\ \A i \in 1 .. Len(clientCalls) : ~ObjHas(clientCalls[i], "structured_prompt")
        /\ posted # NoValue => ~ObjHas(posted, "structured_prompt")

\* The request with the flag and a structured_prompt that is not JSON has been
\* passed to the client and posted.
C4_Witness ==
    /\ DnaRequested
    /\ Get(body, "structured_prompt") = Str("not json")
    /\ Len(clientCalls) = 1
    /\ posted # NoValue

\* The keys parseStructuredPrompt recognises as style fields.
StyleKeys ==
    { "lighting", "light", "illumination", "color_palette", "colors", "palette", "mood",
      "atmosphere", "tone", "vibe", "technical", "camera", "photography", "artistic_style",
      "photographic_style", "rendering_style", "style", "time_of_day", "time", "season",
      "weather" }

\* The text is the JSON of an object one of whose style fields is neither
\* empty, zero, false nor null.
CarriesStyle(text) ==
    \E d \in StyleDocuments :
        /\ Stringify(d) = text
        /\ d.t = "obj"
        /\ \E i \in 1 .. Len(d.o) :
             /\ d.o[i].k \in StyleKeys
             /\ d.o[i].v \notin { Str(""), Num(0), Bool(FALSE), Null }

\* The flag, a structured_prompt and a subject prompt P were received, and
\* the request has been posted.
ComposedAndPosted ==
    /\ DnaRequested
    /\ ObjHas(body, "prompt") /\ Get(body, "prompt") # Str("")
    /\ posted # NoValue

RenderedOrFallback ==
    \/ /\ IsStr(Get(posted, "prompt"))
       /\ StartsWith(Get(posted, "prompt").s, Get(body, "prompt").s \o ", rendered with:")
    \/ Get(posted, "prompt")
          = Str(Get(body, "prompt").s
                \o ", maintaining the same visual style, lighting, and atmosphere")

AbsentOrEmpty(k) == ~ObjHas(body, k) \/ Get(body, k) = Str("")

RequiredError == Obj(<<KV("error", Str("Either structured_prompt or prompt is required"))>>)

\* C6: a generation request with neither a structured_prompt nor a prompt is
\* answered 400 without any call of the client; a request with at least one
\* of them is never rejected by this check.
C6_NeedsPromptOrStructuredPrompt ==
    /\ (AbsentOrEmpty("structured_prompt") /\ AbsentOrEmpty("prompt")) =>
          /\ clientCalls = <<>> /\ cop = "none"
          /\ hpc = "responded" => res.status = 400
    /\ (~AbsentOrEmpty("structured_prompt") \/ ~AbsentOrEmpty("prompt")) =>
          (hpc = "responded" => res.json # RequiredError)

C6_Witness ==
    /\ hpc = "responded"
    /\ AbsentOrEmpty("structured_prompt") /\ AbsentOrEmpty("prompt")
    /\ apiKey
    /\ res = [status |-> 400, json |-> RequiredError]

\* The generation call ended on an HTTP error answer of the remote service.
RemoteRejected ==
    /\ hpc = "responded" /\ cop = "generateImage" /\ rstate = "thrown"
    /\ IsAxiosError(lastReply) /\ lastReply.response # NoValue

\* C7: when the remote service answers a generation call with an HTTP error
\* status S, the error the client raises carries S and the remote payload, and
\* the endpoint's error response has status S and holds the remote payload in
\* details and briaApiError.
C7_RemoteErrorRelayed ==
    RemoteRejected =>
        /\ ResponseStatus(rvalue) = Num(lastReply.response.status)
        /\ ResponseData(rvalue) = lastReply.response.data
        /\ res.status = lastReply.response.status
        /\ Get(res.json, "details") = lastReply.response.data
        /\ Get(res.json, "briaApiError") = lastReply.response.data

(***************************************************************************)
(* Claims about the polling loops (checked under SpecClient).              *)
(***************************************************************************)
\* The last status request of the current polling invocation got an HTTP 200
\* answer whose status is `st`.
LastStatusIs(st) == lastReply # NoValue /\ IsResponse(lastReply) /\ StatusOf(lastReply) = Str(st)

\* The message the operation is to raise for the failure status it last got.
FailureMessage ==
    ToText(OrElse(Get(Get(lastReply.data, "error"), "message"),
                  Str(IF cop = "extractStyle" THEN "Style extraction failed"
                      ELSE "Image generation failed")))

\* C8: when a status request of extractStyle or generateImage gets the failure
\* status ERROR, polling has stopped at that request and the polling invocation
\* has raised the service-provided message (or the generic failure message).
C8_ErrorStatusStopsPolling ==
    LastStatusIs("ERROR") => pollOutcome = Threw(Err(FailureMessage))

MaxPollsOf(op) == IF op = "extractStyle" THEN maxPollsStyle ELSE maxPollsImage

TimeoutOf(op) == IF op = "extractStyle" THEN StyleTimeout ELSE ImageTimeout

\* The last status request got a status the running loop treats as success.
LastStatusIsSuccess ==
    \/ LastStatusIs("COMPLETED")
    \/ cop = "generateImage" /\ LastStatusIs("completed")

PollingBounded == pollReqs <= MaxPollsOf(cop)

SuccessEndsPolling ==
    LastStatusIsSuccess =>
        /\ pollOutcome.kind = "ok" /\ rstate = "returned" /\ rvalue = pollOutcome
        /\ pollReqs = pollI + 1

\* C9 as claimed: a polling invocation issues at most 30 (style) or 60 (image)
\* status requests; one that saw no terminal status ends by raising the
\* polling-timeout error; a success status ends it at once with the result.
C9_PollingTerminatesAsClaimed ==
    /\ PollingBounded
    /\ SuccessEndsPolling
    /\ (pollOutcome # NoValue /\ ~sawTerminal) => pollOutcome = Threw(TimeoutOf(cop))

\* C9 amended: as above, except that pollImageGeneration, before its last
\* iteration, re-raises the error of a status request that failed with an HTTP
\* error response instead of raising the polling timeout.
C9_PollingTerminates ==
    /\ PollingBounded
    /\ SuccessEndsPolling
    /\ (pollOutcome # NoValue /\ ~sawTerminal) =>
          \/ pollOutcome = Threw(TimeoutOf(cop))
          \/ /\ cop = "generateImage"
             /\ pollOutcome.kind = "threw"
             /\ IsAxiosError(pollOutcome.err) /\ Truthy(ResponseStatus(pollOutcome.err))
             /\ pollReqs < maxPollsImage

\* C9 witness: a style polling invocation that used up its 30 status requests
\* without a terminal status and raised the timeout.
C9_Witness ==
    /\ cop = "extractStyle"
    /\ pollReqs = maxPollsStyle
    /\ ~sawTerminal
    /\ pollOutcome = Threw(StyleTimeout)

(***************************************************************************)
(* Claims about the profile namer (checked under SpecName).                *)
(***************************************************************************)
\* C10: for every input and every maxLength, the name generateProfileName
\* returns is at most maxLength long or consists of exactly 2 words
\* separated by a space.
C10_NameFitsOrTwoWords ==
    profileName # NoValue =>
        \/ Len(profileName.s) <= maxLength
        \/ Len(Split(profileName.s, " ")) = 2

\* The structured prompt of the i-th record handed to the namer.
PromptText(i) == Get(structuredPrompts[i], "structured_prompt").s

\* No keyword is extracted from any record, in any category.
NoKeywordExtracted ==
    \A i \in 1 .. Len(structuredPrompts) :
        LET attrs == extractStyleAttributes(PromptText(i))
        IN  \A k \in DOMAIN attrs : attrs[k] = <<>>

\* Texts without a style keyword: the empty object, text that is not JSON,
\* and JSON without a recognised style key.
PlainTexts == { "{}", "not json", "{\"objects\":[\"car\"]}" }

\* C11: generateProfileName returns a name and never raises; the name is
\* exactly "Untitled Style" for an empty sequence, and exactly
\* "Custom Style Profile" for every non-empty sequence from which no keyword
\* is extracted in any category, as when every structured_prompt is "{}",
\* undecodable text, or JSON without recognised style keys.
C11_UntitledAndCustomNames ==
    profileName # NoValue =>
        /\ IsStr(profileName)
        /\ Len(structuredPrompts) = 0 => profileName.s = "Untitled Style"
        /\ (Len(structuredPrompts) > 0 /\ NoKeywordExtracted)
              => profileName.s = "Custom Style Profile"
        /\ ( /\ Len(structuredPrompts) > 0
             /\ \A i \in 1 .. Len(structuredPrompts) : PromptText(i) \in PlainTexts )
              => profileName.s = "Custom Style Profile"

\* C11 witness: two records, "{}" and an undecodable text, named
\* "Custom Style Profile".
C11_Witness ==
    /\ Len(structuredPrompts) = 2
    /\ PromptText(1) = "{}"
    /\ PromptText(2) = "not json"
    /\ profileName = Str("Custom Style Profile")

(***************************************************************************)
(* Claims about the style functions (checked under SpecStyle).             *)
(***************************************************************************)
\* The text handed to the function decodes as JSON to `v`.
DecodesTo(v) == body # NoValue /\ JSONParse(body.s) = Ok(v)

Undecodable == body # NoValue /\ JSONParse(body.s).kind = "threw"

\* C12: extractStyleAttributes never raises, it returns a result; for the
\* empty string, for text that is not JSON and for JSON that decodes to a
\* value that is not an object (null, a number, a text, a list), no category
\* of the result contains a keyword.
C12_NoKeywordsFromNonObjects ==
    hpc = "extracted" =>
        /\ \A k \in DOMAIN res : k \in DOMAIN KeywordsOf \cup {"colors"}
        /\ (Undecodable \/ \E v \in { d.value : d \in JsonDocuments } :
                                DecodesTo(v) /\ ~IsObj(v))
              => \A k \in DOMAIN res : res[k] = <<>>

\* C12 witness: the list ["warm"], which holds a lighting keyword, went
\* through the extractor.
C12_Witness ==
    /\ hpc = "extracted"
    /\ DecodesTo(Arr(<<Str("warm")>>))
    /\ \A k \in DOMAIN res : res[k] = <<>>

\* The keys of the parsed object each StyleDNA field is copied from.
RecognisedKeys ==
    [lighting |-> {"lighting", "light", "illumination"},
     color_palette |-> {"color_palette", "palette"},
     colors |-> {"colors"},
     mood |-> {"mood", "vibe"},
     atmosphere |-> {"atmosphere"},
     tone |-> {"tone"},
     artistic_style |-> {"artistic_style", "style"},
     photographic_style |-> {"photographic_style"},
     rendering_style |-> {"rendering_style"},
     time_of_day |-> {"time_of_day", "time"},
     season |-> {"season"},
     weather |-> {"weather"}]

TechnicalKeys == {"technical", "camera", "photography"}

RecognisedTechnicalKeys ==
    [depth_of_field |-> {"depth_of_field", "dof"},
     focus |-> {"focus"},
     lens |-> {"lens"},
     aperture |-> {"aperture"},
     iso |-> {"iso"},
     shutter_speed |-> {"shutter_speed"}]

\* Entry e of a StyleDNA was copied from a recognised key of `parsed`; the
\* field `technical` is an object whose entries were copied from recognised
\* keys of the technical, camera or photography value of `parsed`.
CopiedFrom(e, parsed) ==
    IF e.k = "technical"
      THEN /\ IsObj(e.v)
           /\ \E src \in TechnicalKeys : Truthy(Get(parsed, src))
           /\ \A j \in 1 .. Len(e.v.o) :
                 /\ e.v.o[j].k \in DOMAIN RecognisedTechnicalKeys
                 /\ Truthy(e.v.o[j].v)
                 /\ \E src \in TechnicalKeys, key \in RecognisedTechnicalKeys[e.v.o[j].k] :
                        Get(Get(parsed, src), key) = e.v.o[j].v
      ELSE /\ e.k \in DOMAIN RecognisedKeys
           /\ Truthy(e.v)
           /\ \E key \in RecognisedKeys[e.k] : Get(parsed, key) = e.v

\* C13: parseStructuredPrompt never raises, it returns a StyleDNA; for a
\* text that does not decode as JSON the StyleDNA has the single field
\* `original`, equal to the raw text; for a text that decodes to an object
\* `original` is the decoded object and every other field was copied from a
\* recognised key of that object.
C13_ParseDegradesToOriginal ==
    hpc = "parsed" =>
        /\ IsObj(styleDNA)
        /\ Undecodable => styleDNA = Obj(<<KV("original", body)>>)
        /\ \A v \in { d.value : d \in JsonDocuments } :
              (DecodesTo(v) /\ IsObj(v)) =>
                  /\ styleDNA.o[1] = KV("original", v)
                  /\ \A i \in 2 .. Len(styleDNA.o) : CopiedFrom(styleDNA.o[i], v)

\* C13 witness: a document with `vibe` and `color_palette` was parsed to a
\* StyleDNA with mood and color_palette.
C13_Witness ==
    /\ hpc = "parsed"
    /\ DecodesTo(Obj(<<KV("color_palette", Arr(<<Str("teal"), Str("orange")>>)),
                       KV("vibe", Str("calm"))>>))
    /\ Get(styleDNA, "mood") = Str("calm")
    /\ Len(styleDNA.o) = 3

\* The labels of the clauses of styleDNAToPrompt, in the order claimed.
ClauseLabels ==
    <<"lighting: ", "color palette: ", "mood: ", "atmosphere: ", "tone: ", "depth of field: ",
      "focus: ", "lens: ", "aperture: ", "style: ", "time: ", "season: ", "weather: ">>

\* The position of the first occurrence of `part` in `text`.
FirstIndex(text, part) ==
    CHOOSE i \in 1 .. Len(text) :
        /\ SubSeq(text, i, i + Len(part) - 1) = part
        /\ \A j \in 1 .. i - 1 : SubSeq(text, j, j + Len(part) - 1) # part

\* The clause of a text-valued field: its label and its value.
TextClauses ==
    { <<"mood", "mood: ">>, <<"atmosphere", "atmosphere: ">>, <<"tone", "tone: ">>,
      <<"time_of_day", "time: ">>, <<"season", "season: ">>, <<"weather", "weather: ">> }

\* C14: the clauses emitted by styleDNAToPrompt appear in the order lighting,
\* color palette, mood, atmosphere, tone, technical sub-fields, style, time,
\* season, weather, whatever the key order of the parsed JSON, and are joined
\* by ", "; a text-valued mood, atmosphere, tone, time, season or weather
\* gives its clause; {"lighting": "warm", "mood": "serene"}, in either key
\* order, gives "lighting: warm, mood: serene"; a StyleDNA with no populated
\* style field gives the empty string.
C14_ClausesInFixedOrder ==
    hpc = "rendered" =>
        /\ \A i, j \in 1 .. Len(ClauseLabels) :
              (i < j /\ Includes(res.s, ClauseLabels[i]) /\ Includes(res.s, ClauseLabels[j]))
                  => FirstIndex(res.s, ClauseLabels[i]) < FirstIndex(res.s, ClauseLabels[j])
        /\ \A i \in 1 .. Len(ClauseLabels) :
              Includes(res.s, ClauseLabels[i]) =>
                  LET at == FirstIndex(res.s, ClauseLabels[i])
                  IN  at = 1 \/ SubSeq(res.s, at - 2, at - 1) = ", "
        /\ \A c \in TextClauses :
              IsStr(Get(styleDNA, c[1])) =>
                  (Truthy(Get(styleDNA, c[1]))
                      <=> Includes(res.s, c[2] \o Get(styleDNA, c[1]).s))
        /\ (DecodesTo(PromptWarm) \/ DecodesTo(PromptReversed))
              => res.s = "lighting: warm, mood: serene"
        /\ (\A i \in 1 .. Len(styleDNA.o) :
                 styleDNA.o[i].k = "original" \/ ~Truthy(styleDNA.o[i].v)) => res.s = ""

\* C14 witness: the document that lists its keys from weather to
\* illumination was rendered from lighting to weather.
C14_Witness ==
    /\ hpc = "rendered"
    /\ DecodesTo(PromptFull)
    /\ StartsWith(res.s, "lighting: soft, natural, color palette: teal, orange, mood: calm")
    /\ Includes(res.s, "aperture: f2, style: film, time: dusk, season: winter, weather: fog")

\* The fallback fields of createStyleOnlyStructuredPrompt.
FallbackFields == <<"lighting", "color_palette", "colors", "mood", "atmosphere">>

\* The top-level entries of StyleDNA.original.
OriginalEntries == ObjectEntries(OrElse(Get(styleDNA, "original"), Obj(<<>>)))

\* A key matches the style whitelist: lower-cased, it is or it contains a
\* whitelisted name.
MatchesWhitelist(key) ==
    \E i \in 1 .. Len(styleFieldsWhitelist) :
        Includes(toLowerCase(key), styleFieldsWhitelist[i])

\* The object holding exactly the populated fallback fields of the StyleDNA.
PopulatedFallback ==
    Obj(SelectSeq([i \in 1 .. Len(FallbackFields) |->
                      KV(FallbackFields[i], Get(styleDNA, FallbackFields[i]))],
                  LAMBDA e : Truthy(e.v)))

\* C15: when no top-level key of StyleDNA.original matches the style
\* whitelist, createStyleOnlyStructuredPrompt returns the JSON object holding
\* exactly the fallback fields lighting, color_palette, colors, mood and
\* atmosphere that are populated on the StyleDNA, and {} when none is; the
\* object never has a non-whitelisted key of original.
C15_FallbackFieldsOnly ==
    hpc = "filtered" =>
        /\ (\A i \in 1 .. Len(OriginalEntries) : ~MatchesWhitelist(OriginalEntries[i].k))
              => /\ res.s = Stringify(PopulatedFallback)
                 /\ (\A i \in 1 .. Len(FallbackFields) :
                         ~Truthy(Get(styleDNA, FallbackFields[i]))) => res.s = "{}"
        /\ \A i \in 1 .. Len(OriginalEntries) :
              ~MatchesWhitelist(OriginalEntries[i].k)
                  => ~Includes(res.s, "\"" \o OriginalEntries[i].k \o "\":")

\* C15 witness: a StyleDNA whose original holds objects alone, with
\* lighting, mood, tone and weather populated, gave lighting and mood.
C15_Witness ==
    /\ hpc = "filtered"
    /\ Get(styleDNA, "original") = PromptScene
    /\ Truthy(Get(styleDNA, "tone"))
    /\ res.s = "{\"lighting\":\"warm\",\"mood\":\"calm\"}"

(***************************************************************************)
(* Further claims about the extraction endpoint (checked under             *)
(* SpecExtract).                                                           *)
(***************************************************************************)
\* The request's profile_name, and the name of the profile in the response.
GivenName == Get(body, "profile_name")

ReturnedName == Get(res.json, "name")

\* C16: the name of the returned profile is the trimmed profile_name of the
\* request when that is not empty; otherwise, when at least one image
\* succeeded, the output of generateProfileName for the successful records;
\* otherwise the timestamp fallback.  A profile_name of white space alone
\* counts as absent.
C16_NamePrecedence ==
    (hpc = "responded" /\ res.status = 200) =>
        /\ IF IsStr(GivenName) /\ Trim(GivenName.s) # ""
             THEN ReturnedName = Str(Trim(GivenName.s))
           ELSE IF \E i \in 1 .. Len(callResults) : callResults[i] = "returned"
             THEN ReturnedName = Str(generateProfileName(EntriesOf(Get(res.json, "images")),
                                                         defaultMaxLength))
           ELSE ReturnedName = Str("Style Profile - " \o Now)
        /\ GivenName = Str(" Studio Look ") => ReturnedName = Str("Studio Look")
        /\ GivenName = Str("   ") => ReturnedName # GivenName /\ ReturnedName # Str("")

\* C16 witness: a profile_name of white space alone and a successful image:
\* the profile carries the namer's output.
C16_Witness ==
    /\ hpc = "responded" /\ res.status = 200
    /\ GivenName = Str("   ")
    /\ Len(structuredPrompts) > 0
    /\ ReturnedName = Str("Warm Serene")

\* C18: the handler has at most one extractStyle call in flight: a call is
\* in flight exactly while the handler awaits it, the k-th call is the one
\* for image k - 1 and is made once the calls before it have settled, and a
\* profile is returned only after each of the n validated images was
\* attempted exactly once, whatever the number of failures before it.
C18_OneCallAtATime ==
    /\ Len(clientCalls) - Len(callResults) = (IF hpc = "calling" THEN 1 ELSE 0)
    /\ \A k \in 1 .. Len(clientCalls) : clientCalls[k] = <<files[k].buffer>>
    /\ hpc = "calling" => idx = Len(clientCalls) - 1
    /\ (hpc = "responded" /\ res.status = 200)
          => /\ Len(clientCalls) = Len(files)
             /\ Len(callResults) = Len(files)
             /\ Len(structuredPrompts) + Len(errors) = Len(files)

\* C18 witness: three images, the first two failed, the third was attempted.
C18_Witness ==
    /\ Len(files) = 3
    /\ callResults = <<"thrown", "thrown", "returned">>
    /\ Len(clientCalls) = 3
    /\ hpc = "responded"

(***************************************************************************)
(* Further claims about the client (checked under SpecClient).             *)
(***************************************************************************)
\* extractStyle was called with a batch it rejects: not exactly one image,
\* or an empty buffer.
InvalidBatch ==
    /\ cop = "extractStyle"
    /\ (Len(creq) # 1 \/ \E i \in 1 .. Len(creq) : IsEmptyBuffer(creq[i]))

\* C17: a validation error is not retried: when extractStyle is called with
\* a batch whose size is not 1, or with an empty buffer, the rejection is
\* evaluated once, there is no further attempt and no suspension, and no
\* request is sent.
C17_ValidationNotRetried ==
    InvalidBatch => (calls <= 1 /\ slept = <<>> /\ posts = 0)

(***************************************************************************)
(* Claims about the polling vocabularies (checked under SpecPolling).      *)
(***************************************************************************)
\* The statuses claimed terminal for an operation, and those its polling
\* loop tests for.
TerminalAsClaimed(op) ==
    IF op = "preview" THEN {"completed", "failed"} ELSE {"COMPLETED", "ERROR"}

TerminalStatuses(op) ==
    CASE op = "extractStyle" -> {"COMPLETED", "ERROR"}
      [] op = "generateImage" -> {"COMPLETED", "completed", "ERROR", "failed"}
      [] op = "preview" -> {"completed", "failed"}

\* The statuses at which a polling loop returns a result.
ReturningStatuses(op) ==
    CASE op = "extractStyle" -> {"COMPLETED"}
      [] op = "generateImage" -> {"COMPLETED", "completed"}
      [] op = "preview" -> {"completed", "failed"}

PollingLimit(op) ==
    CASE op = "extractStyle" -> maxPollsStyle
      [] op = "generateImage" -> maxPollsImage
      [] op = "preview" -> maxPollsPreview

\* This step is a status request answered by an HTTP response with status st.
StatusAnswered(st) ==
    /\ cpc = "poll"
    /\ pollReqs' = pollReqs + 1
    /\ IsResponse(lastReply')
    /\ StatusOf(lastReply') = Str(st)

\* The polling loop goes on to its next status request.
PollingGoesOn ==
    /\ cpc' = "poll"
    /\ pollI' = pollI + 1
    /\ pollOutcome' = NoValue
    /\ rstate' = "call"

\* In this step, a status outside `terminal` is handled as non-terminal (the
\* loop goes on, or times out after its last iteration), a status of
\* `returning` ends the polling with a result, and no other status does.
VocabularyKept(terminal, returning) ==
    \A st \in {"COMPLETED", "ERROR", "completed", "failed", "processing", "IN_PROGRESS"} :
        StatusAnswered(st) =>
            /\ st \notin terminal =>
                  IF pollI + 1 < PollingLimit(cop) THEN PollingGoesOn
                  ELSE pollOutcome'.kind = "threw"
            /\ st \in returning => pollOutcome'.kind = "ok"
            /\ pollOutcome'.kind = "ok" => st \in terminal

FollowedFailures ==
    IF rstate = "sleep" \/ (rstate = "thrown" /\ failures > 0) THEN failures - 1 ELSE failures

\* C20: retryWithBackoff suspends once after each failed attempt that is
\* followed by another attempt, not after a success and not after the final
\* failed attempt; the first suspension lasts initialDelay and each later one
\* min(previous * backoffMultiplier, maxDelay): 1000, 2000, 4000 ms with the
\* default options.
C20_SuspensionsBetweenAttempts ==
    /\ Len(slept) = FollowedFailures
    /\ Len(slept) >= 1 => slept[1] = opts.initialDelay
    /\ \A k \in 2 .. Len(slept) :
          slept[k] = Min(slept[k - 1] * opts.backoffMultiplier, opts.maxDelay)
    /\ opts = defaultOptions =>
          \A k \in 1 .. Len(slept) : slept[k] = <<1000, 2000, 4000>>[k]

\* C20 witness: with the default options, four failed attempts and the three
\* suspensions between them.
C20_Witness ==
    /\ opts = defaultOptions
    /\ rstate = "thrown"
    /\ failures = 4
    /\ slept = <<1000, 2000, 4000>>

(***************************************************************************)
(* Claims about the pace of the polling loops (checked under SpecPolling). *)
(***************************************************************************)
\* This step issues a status request that is not the first of its polling
\* loop.
LaterStatusRequest ==
    /\ cpc = "poll"
    /\ pollReqs >= 1
    /\ pollReqs' = pollReqs + 1

\* C21: within one polling loop (style extraction, preview or image
\* generation), two consecutive status requests are separated by one wait of
\* the poll interval, also after a status request that failed or whose error
\* was swallowed.
C21_WaitBetweenStatusRequests ==
    [][LaterStatusRequest => pollWaited = pollInterval]_vars

(***************************************************************************)
(* Further claims about the style attribute extractor (checked under       *)
(* SpecStyle).                                                             *)
(***************************************************************************)
\* The categories matched against a keyword vocabulary (colors has its own
\* descriptors).
KeywordTypes == { priorityOrder[i] : i \in 1 .. Len(priorityOrder) } \ {"colors"}

\* The value found for a category, as text.
CoercedToText(source) == IF IsStr(source) THEN source.s ELSE Stringify(source)

\* C22: in the style attribute extractor, a value found under a category's
\* key that is not text is coerced to text and matched against the
\* category's vocabulary, so a non-text value in one category never loses
\* the keywords of the other categories of the same record.
C22_NonTextValuesCoerced ==
    \A d \in JsonDocuments :
        (hpc = "extracted" /\ IsObj(d.value) /\ DecodesTo(d.value)) =>
            \A type \in KeywordTypes :
                LET source == AttributeSource(d.value, type)
                IN  Truthy(source) =>
                        /\ type \in DOMAIN res
                        /\ res[type] = extractKeywords(CoercedToText(source), KeywordsOf[type])

(***************************************************************************)
(* Further claims about the profile namer (checked under SpecName).        *)
(***************************************************************************)
\* The aggregated categories, flattened in the order time, weather, location,
\* lighting, mood, colors, atmosphere, technical.
FlatKeywords ==
    LET attributes == aggregateAttributes(structuredPrompts)
    IN  attributes["time"] \o attributes["weather"] \o attributes["location"]
        \o attributes["lighting"] \o attributes["mood"] \o attributes["colors"]
        \o attributes["atmosphere"] \o attributes["technical"]

\* The frequency of a keyword in a list, and the place it is first met at.
CountIn(list, k) == Cardinality({ i \in 1 .. Len(list) : list[i] = k })

FirstIn(list, k) == CHOOSE i \in 1 .. Len(list) : list[i] = k /\ \A j \in 1 .. i - 1 : list[j] # k

\* Keyword a is ranked before keyword b: it is more frequent, or as frequent
\* and met earlier.
RankedBefore(list, a, b) ==
    \/ CountIn(list, a) > CountIn(list, b)
    \/ CountIn(list, a) = CountIn(list, b) /\ FirstIn(list, a) < FirstIn(list, b)

\* The distinct keywords of a list by rank, and the first 4 of them.
Ranked(list) ==
    LET distinct == { list[i] : i \in 1 .. Len(list) }
    IN  [r \in 1 .. Cardinality(distinct) |->
            CHOOSE k \in distinct :
                Cardinality({ a \in distinct : RankedBefore(list, a, k) }) = r - 1]

\* The first 4 keywords of a list by rank.
TopFour(list) == LET ranked == Ranked(list) IN SubSeq(ranked, 1, Min(4, Len(ranked)))

\* C23: the keywords of a generated profile name are the first 4 distinct
\* keywords of the flattened categories (time, weather, location, lighting,
\* mood, colors, atmosphere, technical) sorted by descending frequency, ties
\* in first-encountered order: never more than 4 keywords, and among equally
\* frequent keywords one of an earlier category precedes one of a later
\* category.  (A name longer than maxLength keeps the leading words only.)
C23_TopFourByFrequency ==
    (profileName # NoValue /\ Len(structuredPrompts) > 0) =>
        LET flat == FlatKeywords
            nameKeywords == TopFour(flat)
            fullName == capitalizeWords(JoinText(nameKeywords, " "))
        IN  Len(flat) > 0 =>
                /\ Len(nameKeywords) \in 1 .. 4
                /\ \A i, j \in 1 .. Len(nameKeywords) :
                      i < j => RankedBefore(flat, nameKeywords[i], nameKeywords[j])
                /\ IF Len(fullName) <= maxLength
                     THEN profileName.s = fullName
                     ELSE StartsWith(fullName \o " ", profileName.s \o " ")

\* C23 witness: time dusk, lighting warm and colors warm: the keyword warm,
\* met twice, precedes dusk of the earlier category.
C23_Witness ==
    /\ Len(structuredPrompts) = 1
    /\ PromptText(1) = "{\"time\":\"dusk\",\"lighting\":\"warm\",\"colors\":\"warm\"}"
    /\ FlatKeywords = <<"dusk", "warm", "warm">>
    /\ profileName = Str("Warm Dusk")

(***************************************************************************)
(* Further claims about createStyleOnlyStructuredPrompt (checked under     *)
(* SpecStyle).                                                             *)
(***************************************************************************)
\* The sub-entries of a value whose key does not contain "composition".
WithoutComposition(value) ==
    SelectSeq(ObjectEntries(value), LAMBDA e : ~Includes(toLowerCase(e.k), "composition"))

\* C24: when createStyleOnlyStructuredPrompt copies the object value of a
\* top-level key of `original` that matches the whitelist entry aesthetics
\* (lower-cased, the key is or contains it), the copy has no sub-key
\* containing "composition", and an object left without sub-keys is not
\* emitted.
C24_CompositionStripped ==
    hpc = "filtered" =>
        \A i \in 1 .. Len(OriginalEntries) :
            LET e == OriginalEntries[i]
            IN  ( /\ Includes(toLowerCase(e.k), "aesthetics")
                  /\ Truthy(e.v)
                  /\ TypeofObject(e.v) ) =>
                    IF WithoutComposition(e.v) = <<>>
                      THEN ~Includes(res.s, Stringify(Str(e.k)) \o ":")
                      ELSE Includes(res.s, Stringify(Str(e.k)) \o ":"
                                           \o Stringify(Obj(WithoutComposition(e.v))))

(***************************************************************************)
(* Claims about the order of validation and calls in the extraction        *)
(* endpoint (checked under SpecExtract).                                   *)
(***************************************************************************)
\* The request fails the local validation the claim names: no file or more
\* than 20, or a file with an empty buffer or of more than 10MB.
InvalidUpload ==
    \/ Len(files) = 0
    \/ Len(files) > FilesLimit
    \/ \E i \in 1 .. Len(files) :
          \/ IsEmptyBuffer(files[i].buffer)
          \/ files[i].buffer.len > MaxFileSize

\* C25: in the extraction endpoint all local validation precedes all
\* outbound calls: when a file of the request has an empty buffer or exceeds
\* 10MB, or the file count is invalid, the response has a client-error
\* status and extractStyle has been called for no image of the request, the
\* images before the invalid one included.
C25_ValidationBeforeCalls ==
    InvalidUpload =>
        /\ clientCalls = <<>>
        /\ cop = "none"
        /\ hpc = "responded" => res.status \in 400 .. 499

\* C25 witness: a valid file followed by an empty one, answered with 400; no
\* call was made for the first.
C25_Witness ==
    /\ Len(files) = 2
    /\ files[1] = ValidFile
    /\ IsEmptyBuffer(files[2].buffer)
    /\ hpc = "responded"
    /\ res.status = 400
    /\ clientCalls = <<>>

(***************************************************************************)
(* Further claims about the generation endpoint (checked under              *)
(* SpecGenerate).                                                          *)
(***************************************************************************)
\* A request or payload carries a non-empty prompt or a non-empty
\* structured_prompt.
CarriesPrompt(request) ==
    \/ Truthy(Get(request, "prompt"))
    \/ Truthy(Get(request, "structured_prompt"))

\* C26: every request the generation endpoint passes on to the remote
\* service carries a non-empty prompt or a non-empty structured_prompt, also
\* when use_style_dna_parser is set and the caller gave a structured_prompt
\* but no prompt.
C26_RequestCarriesPrompt ==
    (cop = "generateImage" /\ posted # NoValue) => CarriesPrompt(posted)

(***************************************************************************)
(* Claims about requests all of whose images fail (checked under           *)
(* SpecExtract).                                                           *)
(***************************************************************************)
\* The client call failed for every one of the n >= 1 validated images.
AllImagesFailed ==
    /\ Len(files) >= 1
    /\ Len(callResults) = Len(files)
    /\ \A i \in 1 .. Len(callResults) : callResults[i] = "thrown"

C28_OneRequestInFlight ==
    /\ Len(pending) <= 1
    /\ extractingRef <=> Len(pending) = 1
    /\ loading <=> extractingRef
    /\ pending = <<>> => ~loading /\ ~extractingRef

\* C28 witness: while the request for one image is pending, two images were
\* selected and the effect ran for them; no second request was started.
C28_Witness ==
    /\ pending = << <<"a.png">> >>
    /\ tabImages = <<"a.png", "c">>
    /\ depLength = 2
    /\ loading /\ extractingRef

\* C29: in the StyleExtractorTab, whenever no extraction is in flight and a
\* style profile is displayed, that profile was extracted from exactly the
\* currently selected images, also after the selection was changed or an
\* image removed while a request was pending, or the selection replaced by
\* one of the same number of files.
C29_ProfileOfCurrentImages ==
    (pending = <<>> /\ EffectsFlushed /\ styleProfile # Null) => styleProfile.source = tabImages

(***************************************************************************)
(* Claims about resubmission by the retrier (checked under SpecPolling).   *)
(***************************************************************************)
\* The call in progress is one of the two operations that POST a job and poll.
SubmittingCall == cop \in {"extractStyle", "generateImage"}

\* The arguments of the call pass the validations that precede the POST.
PassesValidation == PostedBy(cop, creq) # NoValue

\* The numbers of POSTs and of status requests of one submission stay bounded.
SubmissionsBounded ==
    SubmittingCall =>
        /\ posts <= defaultOptions.maxRetries + 1
        /\ posts <= calls + 1
        /\ pollReqs <= MaxPollsOf(cop)

\* The count of status requests grows by one per request and starts again
\* from zero only in a step that sends a POST: every status request belongs to
\* the polling loop of one submission.
StatusRequestsPerSubmission ==
    (SubmittingCall /\ pollReqs' # pollReqs) =>
        \/ posts' = posts /\ cpc = "poll" /\ pollReqs' = pollReqs + 1
        \/ posts' = posts + 1 /\ pollReqs' = 0

\* A polling timeout before the last attempt hands control to the retrier's
\* suspension (ClientBackoff), after which the operation, POST included, runs
\* again.
TimeoutResubmits ==
    (/\ SubmittingCall
     /\ pollOutcome' = Threw(TimeoutOf(cop)) /\ pollOutcome = NoValue
     /\ attempt < defaultOptions.maxRetries) =>
        rstate' = "sleep"

\* The call has failed only after maxRetries + 1 submissions that all failed.
FailsAfterAllSubmissions ==
    (SubmittingCall /\ PassesValidation /\ rstate = "thrown") =>
        /\ posts = defaultOptions.maxRetries + 1
        /\ failures = posts
        /\ calls = posts

\* C30: in one call of extractStyle or generateImage whose arguments pass
\* validation, a polling timeout (like any failure) makes the retrier run the
\* operation, POST included, again; the call sends at most maxRetries + 1 = 4
\* POSTs, each followed by at most 30 (extractStyle) or 60 (generateImage)
\* status requests, hence at most 4 * 30 or 4 * 60 status requests; and it
\* fails only after 4 submissions have all failed.
C30_ResubmissionBounded ==
    /\ [](SubmissionsBounded /\ FailsAfterAllSubmissions)
    /\ [][StatusRequestsPerSubmission /\ TimeoutResubmits]_vars

\* C30 witness: extractStyle has failed after four submissions, each of which
\* was polled 30 times and timed out.
C30_Witness ==
    /\ cop = "extractStyle"
    /\ rstate = "thrown"
    /\ posts = 4
    /\ pollReqs = maxPollsStyle
    /\ pollOutcome = Threw(StyleTimeout)
    /\ rvalue = ToError(ExtractStyleCatch(StyleTimeout))
    /\ slept = <<1000, 2000, 4000>>

====
